---- MODULE Spec2Model ----
(***************************************************************************)
(* The dice engine of the TRPG dice plugin (src/trpg_dice/core/            *)
(* dice_engine.py): DiceParser, DiceRoller, DiceResult and the shared      *)
(* DiceConfig record.                                                      *)
(*                                                                         *)
(* Text is a sequence of one-character strings: "3d6+2" is                 *)
(* <<"3","d","6","+","2">>.  A raised ValueError is a record               *)
(* [ok |-> FALSE, error |-> kind]; the kind names the raise statement.     *)
(***************************************************************************)
EXTENDS Integers, Sequences, FiniteSets, TLC

(***************************************************************************)
(* Bounds of the explored inputs.                                          *)
(***************************************************************************)
\* longest text of the exhaustive input set (every text over Alphabet)
MaxLen == 3
\* largest dice count written in the generated dice groups
MaxN == 3
\* largest number of sides written in the generated dice groups
MaxS == 3
\* largest absolute modifier written in the generated dice groups
MaxMod == 2
\* largest multiplier written in the generated multiplier groups
MaxMult == 2
\* a dice group is drawn only when it holds at most this many dice
MaxRolled == 4

(***************************************************************************)
(* DiceConfig defaults, dice_engine.py lines 17-20.                        *)
(***************************************************************************)
DEFAULT_MAX_DICE_COUNT == 100
DEFAULT_MAX_DICE_SIDES == 1000
DEFAULT_DICE_TYPE == 20

DefaultConfig ==
    [MAX_DICE_COUNT |-> DEFAULT_MAX_DICE_COUNT,
     MAX_DICE_SIDES |-> DEFAULT_MAX_DICE_SIDES,
     DEFAULT_DICE_TYPE |-> DEFAULT_DICE_TYPE,
     ENABLE_CRITICAL_EFFECTS |-> TRUE]

\* plugin.py lines 99-102 overwrite the shared record with the host's
\* settings at start-up; this is one such setting with tight limits.
HostConfig ==
    [MAX_DICE_COUNT |-> MaxN - 1,
     MAX_DICE_SIDES |-> MaxS - 1,
     DEFAULT_DICE_TYPE |-> DEFAULT_DICE_TYPE,
     ENABLE_CRITICAL_EFFECTS |-> FALSE]

ConfigSet == {DefaultConfig, HostConfig}

(***************************************************************************)
(* Python text primitives used by the parser.                              *)
(***************************************************************************)
Digits == {"0", "1", "2", "3", "4", "5", "6", "7", "8", "9"}

DigitVal(c) ==
    CASE c = "0" -> 0 [] c = "1" -> 1 [] c = "2" -> 2 [] c = "3" -> 3
      [] c = "4" -> 4 [] c = "5" -> 5 [] c = "6" -> 6 [] c = "7" -> 7
      [] c = "8" -> 8 [] c = "9" -> 9

IsDigits(s) == \A i \in 1..Len(s) : s[i] \in Digits

\* the value of a run of decimal digits
RECURSIVE DecVal(_)
DecVal(s) ==
    IF Len(s) = 0 THEN 0
    ELSE 10 * DecVal(SubSeq(s, 1, Len(s) - 1)) + DigitVal(s[Len(s)])

\* str.lower() on one character
LowerChar(c) ==
    CASE c = "D" -> "d" [] c = "K" -> "k" [] c = "X" -> "x" [] OTHER -> c

Lower(s) == [i \in 1..Len(s) |-> LowerChar(s[i])]

\* str.replace(" ", "")
RemoveSpaces(s) == SelectSeq(s, LAMBDA c : c # " ")

\* the whitespace characters of the texts: blank, newline, tab
Whitespace == {" ", "\n", "\t"}

\* str.strip(): whitespace removed at both ends
RECURSIVE LStrip(_)
LStrip(s) ==
    IF Len(s) > 0 /\ s[1] \in Whitespace THEN LStrip(Tail(s)) ELSE s

RECURSIVE RStrip(_)
RStrip(s) ==
    IF Len(s) > 0 /\ s[Len(s)] \in Whitespace THEN RStrip(SubSeq(s, 1, Len(s) - 1)) ELSE s

Strip(s) == RStrip(LStrip(s))

Contains(s, c) == \E i \in 1..Len(s) : s[i] = c

\* str.split(c) for a one-character separator: the pieces between the
\* separators, empty pieces included
RECURSIVE SplitFrom(_, _, _, _)
SplitFrom(s, c, i, cur) ==
    IF i > Len(s) THEN <<cur>>
    ELSE IF s[i] = c THEN <<cur>> \o SplitFrom(s, c, i + 1, <<>>)
    ELSE SplitFrom(s, c, i + 1, Append(cur, s[i]))

Split(s, c) == SplitFrom(s, c, 1, <<>>)

\* re.split(r'([+-])', s): the pieces and the operators between them, in
\* order; never an empty list ('' gives [''])
RECURSIVE ReSplitFrom(_, _, _)
ReSplitFrom(s, i, cur) ==
    IF i > Len(s) THEN <<cur>>
    ELSE IF s[i] \in {"+", "-"}
         THEN <<cur, <<s[i]>>>> \o ReSplitFrom(s, i + 1, <<>>)
    ELSE ReSplitFrom(s, i + 1, Append(cur, s[i]))

ReSplit(s) == ReSplitFrom(s, 1, <<>>)

\* int(text) for a text without blanks around it: an optional sign, then
\* at least one digit; anything else raises ValueError
IntOfStripped(t) ==
    IF Len(t) > 1 /\ t[1] \in {"+", "-"} /\ IsDigits(Tail(t))
    THEN [ok |-> TRUE, val |-> IF t[1] = "-" THEN 0 - DecVal(Tail(t)) ELSE DecVal(Tail(t))]
    ELSE IF Len(t) > 0 /\ IsDigits(t)
    THEN [ok |-> TRUE, val |-> DecVal(t)]
    ELSE [ok |-> FALSE, val |-> 0]

\* int(text): blanks around the number are ignored
PyInt(s) == IntOfStripped(Strip(s))

\* the length of the run of digits of s that starts at position i
RECURSIVE DigitRun(_, _)
DigitRun(s, i) ==
    IF i <= Len(s) /\ s[i] \in Digits THEN 1 + DigitRun(s, i + 1) ELSE 0

\* the dice pattern once its digit runs are known: n1 digits, 'd', n2
\* digits, and either the end or a sign followed by n3 digits to the end
MatchGroups(s, n1, n2, n3) ==
    IF ~(n1 + 1 <= Len(s) /\ s[n1 + 1] = "d" /\ n2 > 0)
    THEN [ok |-> FALSE, g1 |-> <<>>, g2 |-> <<>>, g3 |-> <<>>]
    ELSE IF n1 + n2 + 1 = Len(s)
    THEN [ok |-> TRUE, g1 |-> SubSeq(s, 1, n1), g2 |-> SubSeq(s, n1 + 2, n1 + 1 + n2),
          g3 |-> <<>>]
    ELSE IF s[n1 + n2 + 2] \in {"+", "-"} /\ n3 > 0 /\ n1 + n2 + 2 + n3 = Len(s)
    THEN [ok |-> TRUE, g1 |-> SubSeq(s, 1, n1), g2 |-> SubSeq(s, n1 + 2, n1 + 1 + n2),
          g3 |-> SubSeq(s, n1 + n2 + 2, Len(s))]
    ELSE [ok |-> FALSE, g1 |-> <<>>, g2 |-> <<>>, g3 |-> <<>>]

MatchSides(s, n1, n2) == MatchGroups(s, n1, n2, DigitRun(s, n1 + n2 + 3))

MatchCount(s, n1) == MatchSides(s, n1, DigitRun(s, n1 + 2))

\* re.match(r'^(\d*)d(\d+)([+-]\d+)?$', s): the three groups as text, an
\* absent group as the empty text
MatchDice(s) == MatchCount(s, DigitRun(s, 1))

\* re.match(r'^[+-]?\d+$', s)
MatchSignedInt(s) ==
    \/ Len(s) > 1 /\ s[1] \in {"+", "-"} /\ IsDigits(Tail(s))
    \/ Len(s) > 0 /\ IsDigits(s)

\* re.match(r'^\d+$', s)
MatchDigits(s) == Len(s) > 0 /\ IsDigits(s)

(***************************************************************************)
(* DiceParser                                                              *)
(***************************************************************************)
Term(c, s, m, x, k) ==
    [dice_count |-> c, dice_sides |-> s, modifier |-> m,
     multiplier |-> x, keep_count |-> k]

Parsed(t) == [ok |-> TRUE, term |-> t, error |-> "none"]

Raise(kind) == [ok |-> FALSE, term |-> Term(0, 0, 0, 1, 0), error |-> kind]

\* the groups of a matched dice pattern as numbers (lines 104-106, 118-120)
GroupCount(m) == IF Len(m.g1) > 0 THEN DecVal(m.g1) ELSE 1
GroupSides(m) == DecVal(m.g2)
GroupModifier(m) == IF Len(m.g3) > 0 THEN IntOfStripped(m.g3).val ELSE 0

\* parse_expression lines 123-133, when the basic pattern did not match:
\* the pure signed integer, the bare integer, and the final raise
ParsePlain(e, cfg) ==
    IF MatchSignedInt(e)
    THEN Parsed(Term(0, 0, IntOfStripped(e).val, 1, 0))
    ELSE IF MatchDigits(e) /\ DecVal(e) <= cfg.MAX_DICE_SIDES
    THEN Parsed(Term(1, DecVal(e), 0, 1, 0))
    ELSE Raise("UnparseableExpression")

\* parse_expression lines 117-121, m the match of the basic pattern
BasicFrom(e, m, cfg) ==
    IF m.ok
    THEN Parsed(Term(GroupCount(m), GroupSides(m), GroupModifier(m), 1, 0))
    ELSE ParsePlain(e, cfg)

\* parse_expression from line 113 on
ParseBasic(e, cfg) == BasicFrom(e, MatchDice(e), cfg)

\* KeepFrom with the check of lines 108-109 left out
KeepFrom_NoCheck(e, keep, m, cfg) ==
    IF ~keep.ok THEN Raise("InvalidLiteral")
    ELSE IF ~m.ok THEN ParseBasic(e, cfg)
    ELSE Parsed(Term(GroupCount(m), GroupSides(m), GroupModifier(m), 1, keep.val))

\* parse_expression lines 103-111, with keep the int() of the text after
\* 'k' and m the match of the text before it
KeepFrom(e, keep, m, cfg) ==
    IF ~keep.ok THEN Raise("InvalidLiteral")
    ELSE IF ~m.ok THEN ParseBasic(e, cfg)
    ELSE IF keep.val > GroupCount(m) THEN Raise("InvalidKeepCount")
    ELSE Parsed(Term(GroupCount(m), GroupSides(m), GroupModifier(m), 1, keep.val))

KeepParts(e, k_parts, cfg) ==
    IF Len(k_parts) # 2 THEN ParseBasic(e, cfg)
    ELSE KeepFrom(e, PyInt(k_parts[2]), MatchDice(Strip(k_parts[1])), cfg)

\* the keep-highest branch, lines 93-111
ParseKeep(e, cfg) == KeepParts(e, Split(e, "k"), cfg)

\* text[1:-1] when the text starts with '(' and ends with ')'
Unwrap(s) ==
    IF Len(s) > 0 /\ s[1] = "(" /\ s[Len(s)] = ")"
    THEN SubSeq(s, 2, Len(s) - 1)
    ELSE s

\* parse_expression lines 82-90: the multiplier is read first, then the
\* dice part is parsed, and its term returned with the multiplier
WithMultiplier(mult, inner) ==
    IF ~mult.ok THEN Raise("InvalidLiteral")
    ELSE IF ~inner.ok THEN inner
    ELSE Parsed([inner.term EXCEPT !.multiplier = mult.val])

\* parse_expression after its lower().strip(), with parts the split at 'x'
RECURSIVE ParseLowered(_, _)
RECURSIVE ParseSplit(_, _, _)
ParseSplit(e, parts, cfg) ==
    IF Contains(e, "x") /\ ~Contains(e, "k") /\ Len(parts) = 2
    THEN WithMultiplier(PyInt(parts[2]),
                        ParseLowered(Strip(Lower(Unwrap(Strip(parts[1])))), cfg))
    ELSE IF Contains(e, "k") THEN ParseKeep(e, cfg)
    ELSE ParseBasic(e, cfg)

ParseLowered(e, cfg) == ParseSplit(e, Split(e, "x"), cfg)

parse_expression(expr, cfg) == ParseLowered(Strip(Lower(expr)), cfg)

\* ApplySign with the negation of the modifier (line 158) forgotten
ApplySign_KeepsModifier(t, sign) ==
    IF sign # -1 THEN t
    ELSE IF t.dice_count > 0
    THEN [t EXCEPT !.modifier = t.modifier - t.dice_count * ((t.dice_sides + 1) \div 2),
                   !.dice_count = 0,
                   !.keep_count = 0]
    ELSE t

\* ApplySign without lines 159-163: a subtracted group keeps its dice
ApplySign_StillRolled(t, sign) ==
    IF sign # -1 THEN t ELSE [t EXCEPT !.modifier = 0 - t.modifier]

\* the sign handling of parse_multiple_dice, lines 156-163
ApplySign(t, sign) ==
    IF sign # -1 THEN t
    ELSE IF t.dice_count > 0
    THEN [t EXCEPT !.modifier = (0 - t.modifier) - t.dice_count * ((t.dice_sides + 1) \div 2),
                   !.dice_count = 0,
                   !.keep_count = 0]
    ELSE [t EXCEPT !.modifier = 0 - t.modifier]

\* the loop of parse_multiple_dice over the split parts, lines 145-167
RECURSIVE ParseParts(_, _, _, _, _)
RECURSIVE ParsedPart(_, _, _, _, _, _)
\* ParseParts with '-' negating the current sign instead of setting it
\* (line 152)
ParseParts_SignToggles(parts, i, current_sign, results, cfg) ==
    IF i > Len(parts) THEN [ok |-> TRUE, terms |-> results, error |-> "none"]
    ELSE IF parts[i] = <<"+">> THEN ParseParts(parts, i + 1, 1, results, cfg)
    ELSE IF parts[i] = <<"-">> THEN ParseParts(parts, i + 1, 0 - current_sign, results, cfg)
    ELSE IF Len(Strip(parts[i])) > 0
    THEN ParsedPart(parts, i, current_sign, results, parse_expression(parts[i], cfg), cfg)
    ELSE ParseParts(parts, i + 1, current_sign, results, cfg)

ParseParts(parts, i, current_sign, results, cfg) ==
    IF i > Len(parts) THEN [ok |-> TRUE, terms |-> results, error |-> "none"]
    ELSE IF parts[i] = <<"+">> THEN ParseParts(parts, i + 1, 1, results, cfg)
    ELSE IF parts[i] = <<"-">> THEN ParseParts(parts, i + 1, -1, results, cfg)
    ELSE IF Len(Strip(parts[i])) > 0
    THEN ParsedPart(parts, i, current_sign, results, parse_expression(parts[i], cfg), cfg)
    ELSE ParseParts(parts, i + 1, current_sign, results, cfg)

\* lines 154-165: r is what parse_expression gave for parts[i]
ParsedPart(parts, i, current_sign, results, r, cfg) ==
    IF r.ok
    THEN ParseParts(parts, i + 1, current_sign,
                    Append(results, ApplySign(r.term, current_sign)), cfg)
    ELSE [ok |-> FALSE, terms |-> <<>>, error |-> r.error]

\* parse_multiple_dice from line 142 on, parts the result of re.split
FromParts(parts, cfg) ==
    IF Len(parts) = 0
    THEN [ok |-> FALSE, terms |-> <<>>, error |-> "EmptyExpression"]
    ELSE ParseParts(parts, 1, 1, <<>>, cfg)

parse_multiple_dice(expr, cfg) == FromParts(ReSplit(Lower(RemoveSpaces(expr))), cfg)

(***************************************************************************)
(* DiceRoller                                                              *)
(***************************************************************************)
RECURSIVE SumSeq(_)
SumSeq(s) == IF Len(s) = 0 THEN 0 ELSE s[1] + SumSeq(Tail(s))

\* list.sort(reverse=True)
RECURSIVE InsertDesc(_, _)
InsertDesc(v, s) ==
    IF Len(s) = 0 THEN <<v>>
    ELSE IF v >= s[1] THEN <<v>> \o s
    ELSE <<s[1]>> \o InsertDesc(v, Tail(s))

RECURSIVE SortDesc(_)
SortDesc(s) == IF Len(s) = 0 THEN <<>> ELSE InsertDesc(s[1], SortDesc(Tail(s)))

\* the ValueError roll_dice raises before or while drawing, lines 179-185
\* (random.randint(1, sides) raises for sides < 1)
RollDiceError(dice_count, dice_sides, cfg) ==
    IF dice_count <= 0 THEN "none"
    ELSE IF dice_count > cfg.MAX_DICE_COUNT THEN "DiceCountExceeded"
    ELSE IF dice_sides > cfg.MAX_DICE_SIDES THEN "DiceSidesExceeded"
    ELSE IF dice_sides < 1 THEN "EmptyRange"
    ELSE "none"

\* what the random source can return for one roll_dice call, line 185
DrawSet(dice_count, dice_sides, cfg) ==
    IF dice_count <= 0 \/ RollDiceError(dice_count, dice_sides, cfg) # "none"
    THEN {<<>>}
    ELSE [1..dice_count -> 1..dice_sides]

\* KeepHighest with the sort (line 189) forgotten
KeepHighest_Unsorted(rolls, dice_count, keep_count) ==
    IF keep_count > 0 /\ keep_count < dice_count
    THEN SubSeq(rolls, 1, keep_count)
    ELSE rolls

\* the keep-highest step of roll_dice, lines 188-190
KeepHighest(rolls, dice_count, keep_count) ==
    IF keep_count > 0 /\ keep_count < dice_count
    THEN SubSeq(SortDesc(rolls), 1, keep_count)
    ELSE rolls

\* roll_dice, given the faces the random source returned
roll_dice(dice_count, dice_sides, keep_count, faces) ==
    IF dice_count <= 0 THEN <<>> ELSE KeepHighest(faces, dice_count, keep_count)

\* ApplyMultiplier scaling the first value only
ApplyMultiplier_FirstOnly(rolls, multiplier) ==
    IF multiplier # 1
    THEN [i \in 1..Len(rolls) |-> IF i = 1 THEN rolls[i] * multiplier ELSE rolls[i]]
    ELSE rolls

\* the multiplier step of roll_expression, lines 211-212
ApplyMultiplier(rolls, multiplier) ==
    IF multiplier # 1 THEN [i \in 1..Len(rolls) |-> rolls[i] * multiplier] ELSE rolls

\* DiceResult with the modifier left out of the total (line 37)
DiceResult_TotalWithoutModifier(expr, rolls, modifier, dice_count, dice_sides) ==
    [ok |-> TRUE, error |-> "none", stage |-> "none",
     expression |-> expr, rolls |-> rolls, modifier |-> modifier,
     dice_count |-> dice_count, dice_sides |-> dice_sides,
     total |-> SumSeq(rolls)]

\* DiceResult.__init__, lines 30-38 (the timestamp is left out)
DiceResult(expr, rolls, modifier, dice_count, dice_sides) ==
    [ok |-> TRUE, error |-> "none", stage |-> "none",
     expression |-> expr, rolls |-> rolls, modifier |-> modifier,
     dice_count |-> dice_count, dice_sides |-> dice_sides,
     total |-> SumSeq(rolls) + modifier]

\* a call that ended in ValueError: no DiceResult exists
Failure(kind, stage) ==
    [ok |-> FALSE, error |-> kind, stage |-> stage,
     expression |-> <<>>, rolls |-> <<>>, modifier |-> 0,
     dice_count |-> 0, dice_sides |-> 0, total |-> 0]

NoResult == Failure("none", "none")

\* is_critical_success without the switch of lines 58-59
is_critical_success_IgnoresSwitch(r, cfg) ==
    \E i \in 1..Len(r.rolls) : r.rolls[i] = r.dice_sides

\* DiceResult.is_critical_success, lines 56-60
is_critical_success(r, cfg) ==
    IF ~cfg.ENABLE_CRITICAL_EFFECTS THEN FALSE
    ELSE \E i \in 1..Len(r.rolls) : r.rolls[i] = r.dice_sides

\* DiceResult.is_critical_failure, lines 62-66
is_critical_failure(r, cfg) ==
    IF ~cfg.ENABLE_CRITICAL_EFFECTS THEN FALSE
    ELSE \E i \in 1..Len(r.rolls) : r.rolls[i] = 1

\* AdvantagePick with '>' for '>=': a tie returns the second evaluation
AdvantagePick_TieSecond(r1, r2) == IF r1.total > r2.total THEN r1 ELSE r2

\* the choice of roll_advantage, lines 242-245
AdvantagePick(r1, r2) == IF r1.total >= r2.total THEN r1 ELSE r2

\* the choice of roll_disadvantage, lines 253-256
DisadvantagePick(r1, r2) == IF r1.total <= r2.total THEN r1 ELSE r2

\* CocLevel with the skill gate of line 276 (skill_value < 50) dropped
CocLevel_NoSkillGate(roll, skill_value) ==
    LET base == IF roll <= skill_value \div 5 THEN "extreme_success"
                ELSE IF roll <= skill_value \div 2 THEN "hard_success"
                ELSE IF roll <= skill_value THEN "success"
                ELSE "failure"
    IN  IF roll = 1 THEN "critical_success"
        ELSE IF roll = 100 \/ roll >= 96 THEN "critical_failure"
        ELSE base

\* the level of roll_coc_check for a drawn d100, lines 264-277
CocLevel(roll, skill_value) ==
    LET base == IF roll <= skill_value \div 5 THEN "extreme_success"
                ELSE IF roll <= skill_value \div 2 THEN "hard_success"
                ELSE IF roll <= skill_value THEN "success"
                ELSE "failure"
    IN  IF roll = 1 THEN "critical_success"
        ELSE IF roll = 100 \/ (roll >= 96 /\ skill_value < 50) THEN "critical_failure"
        ELSE base

\* CocResult with only the level "failure" counted as not successful
\* (line 283 without the critical failure)
CocResult_FumbleSucceeds(roll, skill_value) ==
    [roll |-> roll, skill_value |-> skill_value,
     level |-> CocLevel(roll, skill_value),
     success |-> CocLevel(roll, skill_value) # "failure"]

\* the dict roll_coc_check returns, lines 279-284
CocResult(roll, skill_value) ==
    [roll |-> roll, skill_value |-> skill_value,
     level |-> CocLevel(roll, skill_value),
     success |-> CocLevel(roll, skill_value) \notin {"failure", "critical_failure"}]

\* WodCount with 'elif roll == 1' (line 302) written as a separate 'if' and
\* the specialization bonus given to every 10
RECURSIVE WodCount_BonusAnyTen(_, _, _, _, _, _)
WodCount_BonusAnyTen(rolls, i, difficulty, specialization, successes, ones) ==
    IF i > Len(rolls) THEN <<successes, ones>>
    ELSE WodCount_BonusAnyTen(rolls, i + 1, difficulty, specialization,
             successes + (IF rolls[i] >= difficulty THEN 1 ELSE 0)
                       + (IF specialization /\ rolls[i] = 10 THEN 1 ELSE 0),
             ones + (IF rolls[i] = 1 THEN 1 ELSE 0))

\* the loop of roll_wod_pool over the drawn dice, lines 296-303; the
\* result is <<successes, ones>>
RECURSIVE WodCount(_, _, _, _, _, _)
WodCount(rolls, i, difficulty, specialization, successes, ones) ==
    IF i > Len(rolls) THEN <<successes, ones>>
    ELSE IF rolls[i] >= difficulty
    THEN WodCount(rolls, i + 1, difficulty, specialization,
                  successes + (IF specialization /\ rolls[i] = 10 THEN 2 ELSE 1), ones)
    ELSE IF rolls[i] = 1
    THEN WodCount(rolls, i + 1, difficulty, specialization, successes, ones + 1)
    ELSE WodCount(rolls, i + 1, difficulty, specialization, successes, ones)

\* WodResult without the early return of lines 289-290: an empty pool goes
\* through the count, and has no die showing 1
WodResult_NoEarlyReturn(pool_size, difficulty, specialization, rolls) ==
    LET c == WodCount(rolls, 1, difficulty, specialization, 0, 0)
    IN  [successes |-> c[1], rolls |-> rolls, botch |-> (c[1] = 0 /\ c[2] > 0),
         keys |-> {"successes", "rolls", "botch", "difficulty", "pool_size"},
         difficulty |-> difficulty, pool_size |-> pool_size]

\* the dict roll_wod_pool returns, lines 289-314; the early return of line
\* 290 has three keys only
WodResult(pool_size, difficulty, specialization, rolls) ==
    IF pool_size <= 0
    THEN [successes |-> 0, rolls |-> <<>>, botch |-> TRUE, keys |-> {"successes", "rolls", "botch"},
          difficulty |-> 0, pool_size |-> 0]
    ELSE LET c == WodCount(rolls, 1, difficulty, specialization, 0, 0)
         IN  [successes |-> c[1], rolls |-> rolls, botch |-> (c[1] = 0 /\ c[2] > 0),
              keys |-> {"successes", "rolls", "botch", "difficulty", "pool_size"},
              difficulty |-> difficulty, pool_size |-> pool_size]

(***************************************************************************)
(* The inputs the calls are explored with.                                 *)
(***************************************************************************)
DigitChar(n) ==
    CASE n = 0 -> "0" [] n = 1 -> "1" [] n = 2 -> "2" [] n = 3 -> "3"
      [] n = 4 -> "4" [] n = 5 -> "5" [] n = 6 -> "6" [] n = 7 -> "7"
      [] n = 8 -> "8" [] n = 9 -> "9"

\* a natural number written in decimal
RECURSIVE Str(_)
Str(n) == IF n < 10 THEN <<DigitChar(n)>> ELSE Str(n \div 10) \o <<DigitChar(n % 10)>>

\* an integer written with an explicit sign, as "{m:+}" writes it
SignedStr(m) == IF m < 0 THEN <<"-">> \o Str(0 - m) ELSE <<"+">> \o Str(m)

\* "<n>d<s>"
DiceText(n, s) == Str(n) \o <<"d">> \o Str(s)

\* "<n>d<s><m with its sign>"
ModifiedText(n, s, m) == DiceText(n, s) \o SignedStr(m)

\* "<n>d<s>x<x>"
MultiplierText(n, s, x) == DiceText(n, s) \o <<"x">> \o Str(x)

\* "<n>d<s>k<k>"
KeepText(n, s, k) == DiceText(n, s) \o <<"k">> \o Str(k)

Alphabet == {"0", "1", "2", "d", "k", "x", "+", "-", "(", ")", " "}

\* every text over Alphabet of at most MaxLen characters
ShortTexts == UNION {[1..n -> Alphabet] : n \in 0..MaxLen}

ModifiedTexts ==
    {ModifiedText(n, s, m) : n \in 1..MaxN, s \in 1..MaxS, m \in (0 - MaxMod)..MaxMod}

MultiplierTexts ==
    {MultiplierText(n, s, x) : n \in 1..MaxN, s \in 1..MaxS, x \in 0..MaxMult}

KeepTexts ==
    {KeepText(n, s, k) : n \in 0..MaxN, s \in 1..MaxS, k \in 0..(MaxN + 1)}

\* a dice group alone, after and before another term, and under a minus
InContext(t) ==
    {t, <<"1", "d", "2", "+">> \o t, t \o <<"+", "1">>, <<"-">> \o t, <<"2", "-">> \o t}

KeepInContext == UNION {InContext(t) : t \in KeepTexts \cup {KeepText(2, 6, 5)}}

DiceTexts == {DiceText(n, s) : n \in 1..MaxN, s \in 1..MaxS}

\* one die more, one side more than the default limits allow
OverDefaultTexts ==
    {DiceText(DEFAULT_MAX_DICE_COUNT + 1, 6), DiceText(1, DEFAULT_MAX_DICE_SIDES + 1)}

DiceInContext == UNION {InContext(t) : t \in DiceTexts \cup OverDefaultTexts}

MultiplierInContext == UNION {InContext(t) : t \in MultiplierTexts}

\* two signed integers, '+3-1' being SignedStr(3) \o SignedStr(-1)
ModifierTexts ==
    {SignedStr(a) \o SignedStr(b) : a, b \in (0 - MaxMod)..MaxMod}

\* '10-2d6'
TenMinus2d6 == <<"1", "0", "-", "2", "d", "6">>
\* '(2d6+6)x5', the COC7 template's SIZ / INT / EDU expression
GroupTimes5 == <<"(", "2", "d", "6", "+", "6", ")", "x", "5">>
\* 'd20', the default of the adv / dis commands (plugin.py lines 449, 464)
D20Text == <<"d", "2", "0">>

\* '3d6+2d4+5', the example of parse_multiple_dice's docstring (line 137)
ThreeTerms == <<"3", "d", "6", "+", "2", "d", "4", "+", "5">>
\* '2d6+abc': a malformed token after a well-formed dice term
DiceThenLetters == <<"2", "d", "6", "+", "a", "b", "c">>
\* '+3-1'
PlusThreeMinusOne == <<"+", "3", "-", "1">>

\* '3d6+': an operator with no token after it
TrailingOperator == <<"3", "d", "6", "+">>
\* '3d6+-2': two operators in a row
TwoOperators == <<"3", "d", "6", "+", "-", "2">>

\* the expressions the specification and the sources name
NamedTexts ==
    {ModifiedText(3, 6, 2),
     ModifiedText(2, 10, -1),
     MultiplierText(3, 6, 5),
     KeepText(4, 6, 3),
     TenMinus2d6,
     GroupTimes5,
     KeepText(2, 6, 5),
     D20Text,
     ThreeTerms,
     DiceThenLetters,
     PlusThreeMinusOne,
     TrailingOperator,
     TwoOperators,
     <<"5">>,
     <<"2", "0">>,
     <<"5", "x", "2">>,
     <<"2", "D", "6">>,
     <<"+", "-", "+">>,
     <<" ", " ", " ", " ">>}

Expressions ==
    ShortTexts \cup ModifiedTexts \cup MultiplierTexts \cup KeepTexts
        \cup KeepInContext \cup DiceInContext \cup MultiplierInContext
        \cup ModifierTexts \cup NamedTexts

\* roll_advantage and roll_disadvantage evaluate twice: a smaller input set
MetaExpressions ==
    {DiceText(n, s) : n \in 1..2, s \in 1..MaxS}
        \cup {ModifiedText(1, s, m) : s \in 1..MaxS, m \in {-1, 1}}
        \cup {D20Text, KeepText(2, 6, 5), <<"1", "-", "d", "6">>, <<>>}

\* the random source is explored for dice groups of at most MaxRolled dice
DrawableTerms(p, cfg) ==
    ~p.ok \/ \A i \in 1..Len(p.terms) :
                 \/ p.terms[i].dice_count <= MaxRolled
                 \/ p.terms[i].dice_count > cfg.MAX_DICE_COUNT

Drawable(expr, cfg) == DrawableTerms(parse_multiple_dice(expr, cfg), cfg)

(***************************************************************************)
(* State: the shared configuration record, and the call in progress with   *)
(* the locals of roll_expression.                                          *)
(***************************************************************************)
VARIABLES
    config,           \* the module-level DiceConfig instance
    op,               \* the operation in progress, "idle" when none
    pc,               \* where the operation is
    expression,       \* the expression argument
    dice_parts,       \* roll_expression: the parsed terms
    idx,              \* roll_expression: the term the loop is at
    all_rolls,        \* roll_expression: all_rolls
    total_modifier,   \* roll_expression: total_modifier
    main_dice_count,  \* roll_expression: main_dice_count
    main_dice_sides,  \* roll_expression: main_dice_sides
    drawn,            \* the faces the random source returned, one entry per roll_dice call
    evaluation,       \* roll_advantage / roll_disadvantage: 1 or 2
    args,             \* the other arguments of the call
    result1,          \* roll_advantage / roll_disadvantage: result1
    result2,          \* roll_advantage / roll_disadvantage: result2
    result,           \* what the operation returned or raised
    critical,         \* what the returned outcome answered to is_critical_*()
    frames,           \* concurrent calls: the locals of each call in progress
    character,        \* generate_character: the sheet being filled and where the call is
    chunker           \* chunk_text: its arguments, locals and returned list

vars ==
    <<config, op, pc, expression, dice_parts, idx, all_rolls, total_modifier,
      main_dice_count, main_dice_sides, drawn, evaluation, args, result1, result2, result,
      critical, frames, character, chunker>>

locals == <<dice_parts, idx, all_rolls, total_modifier, main_dice_count, main_dice_sides>>

\* the outcome has not been asked
NotAsked == [asked |-> FALSE, success |-> FALSE, failure |-> FALSE]

NoArgs == [skill_value |-> 0, pool_size |-> 0, difficulty |-> 0, specialization |-> FALSE]

\* how many calls run concurrently
MaxCalls == 2

Calls == 1..MaxCalls

\* the locals of a call that has not started
IdleFrame ==
    [op |-> "idle", pc |-> "idle", expression |-> <<>>, dice_parts |-> <<>>, idx |-> 0,
     all_rolls |-> <<>>, total_modifier |-> 0, main_dice_count |-> 0, main_dice_sides |-> 0,
     drawn |-> <<>>, evaluation |-> 0, args |-> NoArgs,
     result1 |-> NoResult, result2 |-> NoResult, result |-> NoResult]

\* no generate_character call: no sheet
NoCharacter ==
    [pc |-> "idle", template_name |-> "", system |-> "", idx |-> 0,
     attributes |-> [n \in {} |-> 0], skills |-> [n \in {} |-> 0],
     mixed |-> FALSE, error |-> "none"]

\* no chunk_text call
NoChunker ==
    [pc |-> "idle", text |-> <<>>, chunk_size |-> 0, overlap |-> 0, start |-> 0,
     chunks |-> <<>>, spans |-> <<>>, returned |-> <<>>]

Idle ==
    /\ op = "idle"
    /\ pc = "idle"
    /\ expression = <<>>
    /\ dice_parts = <<>>
    /\ idx = 0
    /\ all_rolls = <<>>
    /\ total_modifier = 0
    /\ main_dice_count = 0
    /\ main_dice_sides = 0
    /\ drawn = <<>>
    /\ evaluation = 0
    /\ args = NoArgs
    /\ result1 = NoResult
    /\ result2 = NoResult
    /\ result = NoResult
    /\ critical = NotAsked
    /\ frames = [w \in Calls |-> IdleFrame]
    /\ character = NoCharacter
    /\ chunker = NoChunker

Init ==
    /\ config \in ConfigSet
    /\ Idle

(***************************************************************************)
(* DiceRoller.roll_expression, alone or as one of the two evaluations of   *)
(* roll_advantage / roll_disadvantage.                                     *)
(***************************************************************************)
MetaOps == {"roll_advantage", "roll_disadvantage"}

\* a ValueError leaves roll_expression, and roll_advantage /
\* roll_disadvantage with it: the call ends with no DiceResult
RaiseValueError(kind, stage) ==
    /\ result' = Failure(kind, stage)
    /\ pc' = "done"

Call_roll_expression ==
    /\ pc = "idle"
    /\ \E e \in Expressions :
           /\ Drawable(e, config)
           /\ expression' = e
    /\ op' = "roll_expression"
    /\ evaluation' = 1
    /\ pc' = "parse"
    /\ UNCHANGED <<config, frames, character, chunker, critical, locals, drawn, args, result1, result2, result>>

Call_roll_advantage ==
    /\ pc = "idle"
    /\ \E e \in MetaExpressions :
           /\ Drawable(e, config)
           /\ expression' = e
    /\ op' = "roll_advantage"
    /\ evaluation' = 1
    /\ pc' = "parse"
    /\ UNCHANGED <<config, frames, character, chunker, critical, locals, drawn, args, result1, result2, result>>

Call_roll_disadvantage ==
    /\ pc = "idle"
    /\ \E e \in MetaExpressions :
           /\ Drawable(e, config)
           /\ expression' = e
    /\ op' = "roll_disadvantage"
    /\ evaluation' = 1
    /\ pc' = "parse"
    /\ UNCHANGED <<config, frames, character, chunker, critical, locals, drawn, args, result1, result2, result>>

\* Parsing with the list of terms shared between calls instead of created
\* by each parse (line 145): the terms of the previous parse stay in it
Parsing_SharedResults(p) ==
    IF p.ok
    THEN /\ dice_parts' = dice_parts \o p.terms
         /\ idx' = 1
         /\ all_rolls' = <<>>
         /\ total_modifier' = 0
         /\ main_dice_count' = 0
         /\ main_dice_sides' = config.DEFAULT_DICE_TYPE
         /\ drawn' = <<>>
         /\ pc' = "roll"
         /\ UNCHANGED result
    ELSE /\ RaiseValueError(p.error, "parse")
         /\ UNCHANGED <<locals, drawn>>

\* Parsing with one die drawn before the parse error is raised
Parsing_DrawsFirst(p) ==
    IF p.ok
    THEN /\ dice_parts' = p.terms
         /\ idx' = 1
         /\ all_rolls' = <<>>
         /\ total_modifier' = 0
         /\ main_dice_count' = 0
         /\ main_dice_sides' = config.DEFAULT_DICE_TYPE
         /\ drawn' = <<>>
         /\ pc' = "roll"
         /\ UNCHANGED result
    ELSE /\ RaiseValueError(p.error, "parse")
         /\ drawn' = Append(drawn, <<1>>)
         /\ UNCHANGED locals

\* roll_expression lines 197-205: parse everything, then set up the locals
Parsing(p) ==
    IF p.ok
    THEN /\ dice_parts' = p.terms
         /\ idx' = 1
         /\ all_rolls' = <<>>
         /\ total_modifier' = 0
         /\ main_dice_count' = 0
         /\ main_dice_sides' = config.DEFAULT_DICE_TYPE
         /\ drawn' = <<>>
         /\ pc' = "roll"
         /\ UNCHANGED result
    ELSE /\ RaiseValueError(p.error, "parse")
         /\ UNCHANGED <<locals, drawn>>

Parse ==
    /\ pc = "parse"
    /\ Parsing(parse_multiple_dice(expression, config))
    /\ UNCHANGED <<config, frames, character, chunker, critical, op, expression, evaluation, args, result1, result2>>

\* RollTerm without the test of line 215: every term with dice records
\* itself as the main dice group
RollTerm_LastWins ==
    /\ pc = "roll"
    /\ idx <= Len(dice_parts)
    /\ LET t == dice_parts[idx]
           err == RollDiceError(t.dice_count, t.dice_sides, config)
       IN  IF t.dice_count > 0 /\ err # "none"
           THEN /\ RaiseValueError(err, "roll")
                /\ UNCHANGED <<locals, drawn>>
           ELSE \E faces \in DrawSet(t.dice_count, t.dice_sides, config) :
                    LET rolls == ApplyMultiplier(
                                     roll_dice(t.dice_count, t.dice_sides, t.keep_count, faces),
                                     t.multiplier)
                        first == t.dice_count > 0
                    IN  /\ all_rolls' = IF t.dice_count > 0 THEN all_rolls \o rolls ELSE all_rolls
                        /\ main_dice_count' = IF first THEN t.dice_count ELSE main_dice_count
                        /\ main_dice_sides' = IF first THEN t.dice_sides ELSE main_dice_sides
                        /\ total_modifier' = total_modifier + t.modifier * t.multiplier
                        /\ drawn' = IF t.dice_count > 0 THEN Append(drawn, faces) ELSE drawn
                        /\ idx' = idx + 1
                        /\ UNCHANGED <<dice_parts, pc, result>>
    /\ UNCHANGED <<config, frames, character, chunker, critical, op, expression, evaluation, args, result1, result2>>

\* roll_expression lines 207-220: one pass of the loop over the terms
RollTerm ==
    /\ pc = "roll"
    /\ idx <= Len(dice_parts)
    /\ LET t == dice_parts[idx]
           err == RollDiceError(t.dice_count, t.dice_sides, config)
       IN  IF t.dice_count > 0 /\ err # "none"
           THEN /\ RaiseValueError(err, "roll")
                /\ UNCHANGED <<locals, drawn>>
           ELSE \E faces \in DrawSet(t.dice_count, t.dice_sides, config) :
                    LET rolls == ApplyMultiplier(
                                     roll_dice(t.dice_count, t.dice_sides, t.keep_count, faces),
                                     t.multiplier)
                        first == t.dice_count > 0 /\ main_dice_count = 0
                    IN  /\ all_rolls' = IF t.dice_count > 0 THEN all_rolls \o rolls ELSE all_rolls
                        /\ main_dice_count' = IF first THEN t.dice_count ELSE main_dice_count
                        /\ main_dice_sides' = IF first THEN t.dice_sides ELSE main_dice_sides
                        /\ total_modifier' = total_modifier + t.modifier * t.multiplier
                        /\ drawn' = IF t.dice_count > 0 THEN Append(drawn, faces) ELSE drawn
                        /\ idx' = idx + 1
                        /\ UNCHANGED <<dice_parts, pc, result>>
    /\ UNCHANGED <<config, frames, character, chunker, critical, op, expression, evaluation, args, result1, result2>>

\* Built without lines 225-226: the defaults set before the loop stay
Built_KeepsDefaults ==
    IF Len(all_rolls) = 0
    THEN DiceResult(expression, <<0>>, total_modifier, main_dice_count, main_dice_sides)
    ELSE DiceResult(expression, all_rolls, total_modifier, main_dice_count, main_dice_sides)

\* roll_expression lines 222-234: the DiceResult built from the locals
Built ==
    IF Len(all_rolls) = 0
    THEN DiceResult(expression, <<0>>, total_modifier, 0, 0)
    ELSE DiceResult(expression, all_rolls, total_modifier, main_dice_count, main_dice_sides)

LoopDone == pc = "roll" /\ idx > Len(dice_parts)

Return_roll_expression ==
    /\ op = "roll_expression"
    /\ LoopDone
    /\ result' = Built
    /\ pc' = "done"
    /\ UNCHANGED <<config, frames, character, chunker, critical, op, expression, locals, drawn, evaluation, args, result1, result2>>

\* roll_advantage line 239 / roll_disadvantage line 250
FirstEvaluation ==
    /\ op \in MetaOps
    /\ evaluation = 1
    /\ LoopDone
    /\ result1' = Built
    /\ evaluation' = 2
    /\ pc' = "parse"
    /\ UNCHANGED <<config, frames, character, chunker, critical, op, expression, locals, drawn, args, result2, result>>

\* roll_advantage lines 240-245 / roll_disadvantage lines 251-256
SecondEvaluation ==
    /\ op \in MetaOps
    /\ evaluation = 2
    /\ LoopDone
    /\ result2' = Built
    /\ result' = IF op = "roll_advantage"
                 THEN AdvantagePick(result1, Built)
                 ELSE DisadvantagePick(result1, Built)
    /\ pc' = "done"
    /\ UNCHANGED <<config, frames, character, chunker, critical, op, expression, locals, drawn, evaluation, args, result1>>

\* the caller asks the returned DiceResult whether it is a critical success
\* or failure (lines 56-66; plugin.py lines 407-409)
Call_is_critical ==
    /\ pc = "done"
    /\ op \in {"roll_expression"} \cup MetaOps
    /\ result.ok
    /\ ~critical.asked
    /\ critical' = [asked |-> TRUE,
                    success |-> is_critical_success(result, config),
                    failure |-> is_critical_failure(result, config)]
    /\ UNCHANGED <<config, frames, character, chunker, op, pc, expression, locals, drawn, evaluation, args,
                   result1, result2, result>>

(***************************************************************************)
(* The parser called on its own.                                           *)
(***************************************************************************)
Call_parse_multiple_dice ==
    /\ pc = "idle"
    /\ \E e \in Expressions :
           /\ expression' = e
           /\ result' = parse_multiple_dice(e, config)
    /\ op' = "parse_multiple_dice"
    /\ pc' = "done"
    /\ UNCHANGED <<config, frames, character, chunker, critical, locals, drawn, evaluation, args, result1, result2>>

Call_parse_expression ==
    /\ pc = "idle"
    /\ \E e \in Expressions :
           /\ expression' = e
           /\ result' = parse_expression(e, config)
    /\ op' = "parse_expression"
    /\ pc' = "done"
    /\ UNCHANGED <<config, frames, character, chunker, critical, locals, drawn, evaluation, args, result1, result2>>

(***************************************************************************)
(* The judgment engines.                                                   *)
(***************************************************************************)
\* the d100 of roll_coc_check, line 261
D100 == 100
\* the d10 of roll_wod_pool, line 292
D10 == 10

\* largest skill value explored
MaxSkill == 105
\* largest pool explored
MaxPool == 3

SkillValues == (-5..MaxSkill) \cup {250, 500, 1000}

Difficulties == {0, 1, 2, 6, 10, 11}

Call_roll_coc_check ==
    /\ pc = "idle"
    /\ \E skill_value \in SkillValues, roll \in 1..D100 :
           /\ result' = CocResult(roll, skill_value)
           /\ args' = [NoArgs EXCEPT !.skill_value = skill_value]
    /\ op' = "roll_coc_check"
    /\ pc' = "done"
    /\ UNCHANGED <<config, frames, character, chunker, critical, expression, locals, drawn, evaluation, result1, result2>>

\* what the random source can return for the pool, line 292
PoolDraws(pool_size) == IF pool_size <= 0 THEN {<<>>} ELSE [1..pool_size -> 1..D10]

Call_roll_wod_pool ==
    /\ pc = "idle"
    /\ \E pool_size \in 0..MaxPool, difficulty \in Difficulties, specialization \in BOOLEAN :
           \E rolls \in PoolDraws(pool_size) :
               /\ result' = WodResult(pool_size, difficulty, specialization, rolls)
               /\ drawn' = IF pool_size <= 0 THEN <<>> ELSE <<rolls>>
               /\ args' = [NoArgs EXCEPT !.pool_size = pool_size, !.difficulty = difficulty,
                                         !.specialization = specialization]
    /\ op' = "roll_wod_pool"
    /\ pc' = "done"
    /\ UNCHANGED <<config, frames, character, chunker, critical, expression, locals, evaluation, result1, result2>>

\* the caller has the result; the engine keeps nothing of the call
Return ==
    /\ pc = "done"
    /\ op' = "idle"
    /\ pc' = "idle"
    /\ expression' = <<>>
    /\ dice_parts' = <<>>
    /\ idx' = 0
    /\ all_rolls' = <<>>
    /\ total_modifier' = 0
    /\ main_dice_count' = 0
    /\ main_dice_sides' = 0
    /\ drawn' = <<>>
    /\ evaluation' = 0
    /\ args' = NoArgs
    /\ result1' = NoResult
    /\ result2' = NoResult
    /\ result' = NoResult
    /\ critical' = NotAsked
    /\ UNCHANGED <<config, frames, character, chunker>>

(***************************************************************************)
(* Concurrent calls.  Every DiceRoller method is static and works on its   *)
(* own locals; frames[w] holds the locals of call w.  The calls share the  *)
(* configuration record and the random source.                             *)
(***************************************************************************)
\* the variables of the single call, which the concurrent calls leave alone
single ==
    <<critical, op, pc, expression, locals, drawn, evaluation, args, result1, result2, result,
      character, chunker>>

\* 'd2+1' and '2d2k1'
ConcExpressions == {DiceText(1, 2) \o SignedStr(1), KeepText(2, 2, 1)}

\* the d100 outcomes the concurrent percentile checks are explored with
CocDraws == {1, 10, 25, 50, 51, 96, 100}

\* the calls that can be started: roll_expression, roll_advantage on 'd2',
\* roll_coc_check at the default skill value 50 (plugin.py line 517) and
\* roll_wod_pool with one die at the default difficulty 6 (line 287)
ConcCalls ==
    {[IdleFrame EXCEPT !.op = "roll_expression", !.expression = e,
                       !.evaluation = 1, !.pc = "parse"] : e \in ConcExpressions}
    \cup {[IdleFrame EXCEPT !.op = "roll_advantage", !.expression = <<"d", "2">>,
                            !.evaluation = 1, !.pc = "parse"],
          [IdleFrame EXCEPT !.op = "roll_coc_check", !.pc = "draw",
                            !.args = [NoArgs EXCEPT !.skill_value = 50]],
          [IdleFrame EXCEPT !.op = "roll_wod_pool", !.pc = "draw",
                            !.args = [NoArgs EXCEPT !.pool_size = 1, !.difficulty = 6]]}

\* roll_expression lines 197-205 on the locals f, p being the parse
FrameParsed(f, p, cfg) ==
    IF p.ok
    THEN [f EXCEPT !.dice_parts = p.terms, !.idx = 1, !.all_rolls = <<>>,
                   !.total_modifier = 0, !.main_dice_count = 0,
                   !.main_dice_sides = cfg.DEFAULT_DICE_TYPE, !.drawn = <<>>, !.pc = "roll"]
    ELSE [f EXCEPT !.result = Failure(p.error, "parse"), !.pc = "done"]

\* roll_expression lines 207-220 on the locals f: the term t is rolled
\* with the faces the random source returned
FrameRolled(f, t, faces, cfg) ==
    IF t.dice_count > 0 /\ RollDiceError(t.dice_count, t.dice_sides, cfg) # "none"
    THEN [f EXCEPT !.result = Failure(RollDiceError(t.dice_count, t.dice_sides, cfg), "roll"),
                   !.pc = "done"]
    ELSE IF t.dice_count > 0
    THEN [f EXCEPT !.all_rolls = @ \o ApplyMultiplier(
                                         roll_dice(t.dice_count, t.dice_sides, t.keep_count, faces),
                                         t.multiplier),
                   !.main_dice_count = IF @ = 0 THEN t.dice_count ELSE @,
                   !.main_dice_sides = IF f.main_dice_count = 0 THEN t.dice_sides ELSE @,
                   !.total_modifier = @ + t.modifier * t.multiplier,
                   !.drawn = Append(@, faces),
                   !.idx = @ + 1]
    ELSE [f EXCEPT !.total_modifier = @ + t.modifier * t.multiplier, !.idx = @ + 1]

\* roll_expression lines 222-234 on the locals f
FrameBuilt(f) ==
    IF Len(f.all_rolls) = 0
    THEN DiceResult(f.expression, <<0>>, f.total_modifier, 0, 0)
    ELSE DiceResult(f.expression, f.all_rolls, f.total_modifier,
                    f.main_dice_count, f.main_dice_sides)

\* the end of an evaluation: the return of roll_expression, or lines
\* 239-245 / 250-256 of roll_advantage / roll_disadvantage
FrameFinished(f, built) ==
    IF f.op = "roll_expression" THEN [f EXCEPT !.result = built, !.pc = "done"]
    ELSE IF f.evaluation = 1
    THEN [f EXCEPT !.result1 = built, !.evaluation = 2, !.pc = "parse"]
    ELSE [f EXCEPT !.result2 = built,
                   !.result = IF f.op = "roll_advantage"
                              THEN AdvantagePick(f.result1, built)
                              ELSE DisadvantagePick(f.result1, built),
                   !.pc = "done"]

Conc_Call(w) ==
    /\ frames[w].pc = "idle"
    /\ \E f \in ConcCalls : frames' = [frames EXCEPT ![w] = f]
    /\ UNCHANGED <<config, single>>

Conc_Parse(w) ==
    /\ frames[w].pc = "parse"
    /\ frames' = [frames EXCEPT ![w] =
                      FrameParsed(@, parse_multiple_dice(@.expression, config), config)]
    /\ UNCHANGED <<config, single>>

\* Conc_RollTerm with all_rolls shared by the calls instead of local to
\* each (line 202): the values rolled by one call also land in the list of
\* every other call that is in its loop
Conc_RollTerm_SharedRolls(w) ==
    /\ frames[w].pc = "roll"
    /\ frames[w].idx <= Len(frames[w].dice_parts)
    /\ \E faces \in DrawSet(frames[w].dice_parts[frames[w].idx].dice_count,
                            frames[w].dice_parts[frames[w].idx].dice_sides, config) :
           frames' = [v \in Calls |->
                         IF v = w
                         THEN FrameRolled(frames[w], frames[w].dice_parts[frames[w].idx],
                                          faces, config)
                         ELSE IF frames[v].pc = "roll"
                         THEN [frames[v] EXCEPT !.all_rolls = @ \o faces]
                         ELSE frames[v]]
    /\ UNCHANGED <<config, single>>

Conc_RollTerm(w) ==
    /\ frames[w].pc = "roll"
    /\ frames[w].idx <= Len(frames[w].dice_parts)
    /\ \E faces \in DrawSet(frames[w].dice_parts[frames[w].idx].dice_count,
                            frames[w].dice_parts[frames[w].idx].dice_sides, config) :
           frames' = [frames EXCEPT ![w] = FrameRolled(@, @.dice_parts[@.idx], faces, config)]
    /\ UNCHANGED <<config, single>>

Conc_Finish(w) ==
    /\ frames[w].pc = "roll"
    /\ frames[w].idx > Len(frames[w].dice_parts)
    /\ frames' = [frames EXCEPT ![w] = FrameFinished(@, FrameBuilt(@))]
    /\ UNCHANGED <<config, single>>

\* roll_coc_check, lines 261-284
Conc_roll_coc_check(w) ==
    /\ frames[w].pc = "draw"
    /\ frames[w].op = "roll_coc_check"
    /\ \E roll \in CocDraws :
           frames' = [frames EXCEPT ![w].result = CocResult(roll, frames[w].args.skill_value),
                                    ![w].drawn = <<(<<roll>>)>>,
                                    ![w].pc = "done"]
    /\ UNCHANGED <<config, single>>

\* roll_wod_pool, lines 289-314
Conc_roll_wod_pool(w) ==
    /\ frames[w].pc = "draw"
    /\ frames[w].op = "roll_wod_pool"
    /\ \E rolls \in PoolDraws(frames[w].args.pool_size) :
           frames' = [frames EXCEPT ![w].result =
                                        WodResult(frames[w].args.pool_size,
                                                  frames[w].args.difficulty,
                                                  frames[w].args.specialization, rolls),
                                    ![w].drawn = <<rolls>>,
                                    ![w].pc = "done"]
    /\ UNCHANGED <<config, single>>

\* the caller of call w has its result
Conc_Return(w) ==
    /\ frames[w].pc = "done"
    /\ frames' = [frames EXCEPT ![w] = IdleFrame]
    /\ UNCHANGED <<config, single>>

(***************************************************************************)
(* Character sheets: CharacterManager.generate_character fills a new       *)
(* CharacterSheet from a CharacterTemplate (apply_to_character).           *)
(***************************************************************************)
\* '3d6x5'
ThreeD6Times5 == <<"3", "d", "6", "x", "5">>

\* '4d6k3'
FourD6Keep3 == <<"4", "d", "6", "k", "3">>

\* a formula string, as the expression eval sees once the '{NAME}'
\* places are replaced by str(value): a number, an attribute, or two
\* formulas joined by + - * /
Num(n) == [op |-> "num", n |-> n]
Ref(name) == [op |-> "ref", name |-> name]
Bin(o, l, r) == [op |-> o, l |-> l, r |-> r]

\* '({ATTR}-10)/2'
ModifierFormula(attr) == Bin("/", Bin("-", Ref(attr), Num(10)), Num(2))

\* CharacterTemplate.get_coc7_template, attributes and mapping in dict
\* order; the template defines no skills
Coc7Template ==
    [system |-> "CoC",
     attributes |-> << [name |-> "STR", dice |-> ThreeD6Times5],
                       [name |-> "CON", dice |-> ThreeD6Times5],
                       [name |-> "SIZ", dice |-> GroupTimes5],
                       [name |-> "DEX", dice |-> ThreeD6Times5],
                       [name |-> "APP", dice |-> ThreeD6Times5],
                       [name |-> "INT", dice |-> GroupTimes5],
                       [name |-> "POW", dice |-> ThreeD6Times5],
                       [name |-> "EDU", dice |-> GroupTimes5],
                       [name |-> "LUC", dice |-> ThreeD6Times5] >>,
     skills |-> <<>>,
     mapping |-> << [target |-> "SANMAX", formula |-> Ref("POW")],
                    [target |-> "SAN", formula |-> Ref("POW")],
                    [target |-> "HPMAX",
                     formula |-> Bin("/", Bin("+", Ref("CON"), Ref("SIZ")), Num(10))],
                    [target |-> "HP",
                     formula |-> Bin("/", Bin("+", Ref("CON"), Ref("SIZ")), Num(10))],
                    [target |-> "MPMAX", formula |-> Bin("/", Ref("POW"), Num(5))],
                    [target |-> "MP", formula |-> Bin("/", Ref("POW"), Num(5))],
                    [target |-> "IDEA", formula |-> Ref("INT")],
                    [target |-> "KNOW", formula |-> Ref("EDU")] >>]

\* CharacterTemplate.get_dnd5e_template, attributes, mapping and skills in
\* dict order; the Chinese names of skills and derived attributes are
\* written in English
Dnd5eTemplate ==
    [system |-> "DnD5e",
     attributes |-> << [name |-> "STR", dice |-> FourD6Keep3],
                       [name |-> "DEX", dice |-> FourD6Keep3],
                       [name |-> "CON", dice |-> FourD6Keep3],
                       [name |-> "INT", dice |-> FourD6Keep3],
                       [name |-> "WIS", dice |-> FourD6Keep3],
                       [name |-> "CHA", dice |-> FourD6Keep3] >>,
     skills |-> << [name |-> "Athletics", attr |-> "STR", formula |-> ModifierFormula("STR")],
                   [name |-> "Acrobatics", attr |-> "DEX", formula |-> ModifierFormula("DEX")],
                   [name |-> "SleightOfHand", attr |-> "DEX", formula |-> ModifierFormula("DEX")],
                   [name |-> "Stealth", attr |-> "DEX", formula |-> ModifierFormula("DEX")],
                   [name |-> "Investigation", attr |-> "INT", formula |-> ModifierFormula("INT")],
                   [name |-> "Arcana", attr |-> "INT", formula |-> ModifierFormula("INT")],
                   [name |-> "History", attr |-> "INT", formula |-> ModifierFormula("INT")],
                   [name |-> "Nature", attr |-> "INT", formula |-> ModifierFormula("INT")],
                   [name |-> "Religion", attr |-> "INT", formula |-> ModifierFormula("INT")],
                   [name |-> "Perception", attr |-> "WIS", formula |-> ModifierFormula("WIS")],
                   [name |-> "Insight", attr |-> "WIS", formula |-> ModifierFormula("WIS")],
                   [name |-> "AnimalHandling", attr |-> "WIS", formula |-> ModifierFormula("WIS")],
                   [name |-> "Medicine", attr |-> "WIS", formula |-> ModifierFormula("WIS")],
                   [name |-> "Survival", attr |-> "WIS", formula |-> ModifierFormula("WIS")],
                   [name |-> "Persuasion", attr |-> "CHA", formula |-> ModifierFormula("CHA")],
                   [name |-> "Deception", attr |-> "CHA", formula |-> ModifierFormula("CHA")],
                   [name |-> "Intimidation", attr |-> "CHA", formula |-> ModifierFormula("CHA")],
                   [name |-> "Performance", attr |-> "CHA", formula |-> ModifierFormula("CHA")] >>,
     mapping |-> << [target |-> "Speed", formula |-> Num(30)],
                    [target |-> "Initiative", formula |-> ModifierFormula("DEX")],
                    [target |-> "CarryingCapacity", formula |-> Bin("*", Ref("STR"), Num(15))],
                    [target |-> "Load", formula |-> Bin("*", Ref("STR"), Num(10))],
                    [target |-> "ArmorClass",
                     formula |-> Bin("+", Num(10), ModifierFormula("DEX"))] >>]

\* CharacterManager.templates
TemplateNames == {"coc7", "dnd5e"}

Templates(template_name) ==
    IF template_name = "coc7" THEN Coc7Template ELSE Dnd5eTemplate

\* the attributes a new CharacterSheet of the system has (the six Chinese
\* names of the DnD5e sheet written in English)
SheetAttributes(system) ==
    IF system = "CoC"
    THEN [STR |-> 50, CON |-> 50, SIZ |-> 50, DEX |-> 50, APP |-> 50, INT |-> 50,
          POW |-> 50, EDU |-> 50, LUC |-> 50, SAN |-> 50, SANMAX |-> 50, HP |-> 10,
          HPMAX |-> 10, MP |-> 10, MPMAX |-> 10, IDEA |-> 50, KNOW |-> 50,
          SANMAXADD |-> 0, HPMAXADD |-> 0, MPMAXADD |-> 0]
    ELSE ("Strength" :> 10) @@ ("Dexterity" :> 10) @@ ("Constitution" :> 10) @@ ("Intelligence" :> 10)
         @@ ("Wisdom" :> 10) @@ ("Charisma" :> 10)

\* d[k] = v
SetItem(d, k, v) == [x \in DOMAIN d \cup {k} |-> IF x = k THEN v ELSE d[x]]

\* CharacterSheet.get_modifier on the attributes of a sheet
get_modifier(system, attributes, attribute) ==
    IF system = "DnD5e"
    THEN ((IF attribute \in DOMAIN attributes THEN attributes[attribute] ELSE 10) - 10) \div 2
    ELSE IF system = "CoC"
    THEN IF attribute \in DOMAIN attributes THEN attributes[attribute] ELSE 50
    ELSE 0

\* the value of a Python expression: the fraction n / d with d > 0 (a
\* float when '/' was applied), or the exception it raised
Value(n, d) == [ok |-> TRUE, n |-> n, d |-> d]
Raised == [ok |-> FALSE, n |-> 0, d |-> 1]

\* a / b, the true division of Python 3
TrueDiv(a, b) ==
    IF b.n = 0 THEN Raised
    ELSE IF b.n > 0 THEN Value(a.n * b.d, a.d * b.n)
    ELSE Value(0 - a.n * b.d, 0 - a.d * b.n)

Combine(o, a, b) ==
    IF ~a.ok \/ ~b.ok THEN Raised
    ELSE IF o = "+" THEN Value(a.n * b.d + b.n * a.d, a.d * b.d)
    ELSE IF o = "-" THEN Value(a.n * b.d - b.n * a.d, a.d * b.d)
    ELSE IF o = "*" THEN Value(a.n * b.n, a.d * b.d)
    ELSE TrueDiv(a, b)

\* eval(calc_formula) after the replacements: a '{NAME}' that names no
\* attribute of the sheet is left in the text and raises
RECURSIVE Eval(_, _)
Eval(f, attributes) ==
    IF f.op = "num" THEN Value(f.n, 1)
    ELSE IF f.op = "ref"
    THEN IF f.name \in DOMAIN attributes THEN Value(attributes[f.name], 1) ELSE Raised
    ELSE Combine(f.op, Eval(f.l, attributes), Eval(f.r, attributes))

\* int(result): an int is kept, a float is truncated towards zero
IntOf(v) == IF v.n >= 0 THEN v.n \div v.d ELSE 0 - ((0 - v.n) \div v.d)

\* one entry of the skill loop of apply_to_character: the formula is
\* evaluated on the attributes; if eval raises, the formula text is kept
SkillValue(v) == IF v.ok THEN [evaluated |-> TRUE, value |-> IntOf(v)]
                 ELSE [evaluated |-> FALSE, value |-> 0]

RECURSIVE AppliedSkills(_, _, _, _)
AppliedSkills(entries, i, attributes, skills) ==
    IF i > Len(entries) THEN skills
    ELSE AppliedSkills(entries, i + 1, attributes,
                       SetItem(skills, entries[i].name,
                               SkillValue(Eval(entries[i].formula, attributes))))

\* _calculate_mappings: a formula whose evaluation raises is skipped
MappedAttribute(attributes, target, v) ==
    IF v.ok THEN SetItem(attributes, target, IntOf(v)) ELSE attributes

RECURSIVE CalculatedMappings(_, _, _)
CalculatedMappings(mapping, i, attributes) ==
    IF i > Len(mapping) THEN attributes
    ELSE CalculatedMappings(mapping, i + 1,
                            MappedAttribute(attributes, mapping[i].target,
                                            Eval(mapping[i].formula, attributes)))

\* what the random source can return during one roll_expression call: the
\* faces of each term in turn
RECURSIVE DrawsFor(_, _, _)
DrawsFor(terms, i, cfg) ==
    IF i > Len(terms) THEN {<<>>}
    ELSE {<<faces>> \o rest : faces \in DrawSet(terms[i].dice_count, terms[i].dice_sides, cfg),
                              rest \in DrawsFor(terms, i + 1, cfg)}

\* the loop of roll_expression run to its end on the draws
RECURSIVE RolledFrame(_, _, _)
RolledFrame(f, draws, cfg) ==
    IF f.pc # "roll" \/ f.idx > Len(f.dice_parts) THEN f
    ELSE RolledFrame(FrameRolled(f, f.dice_parts[f.idx], draws[f.idx], cfg), draws, cfg)

OutcomeOf(f) == IF f.pc = "done" THEN f.result ELSE FrameBuilt(f)

\* roll_expression on an accepted expression, p being its parse
roll_expression(expr, p, draws, cfg) ==
    OutcomeOf(RolledFrame(FrameParsed([IdleFrame EXCEPT !.expression = expr], p, cfg),
                          draws, cfg))

\* every face is the lowest or every face is the highest of its die
Uniform(terms, draws) ==
    \A i \in 1..Len(draws) :
        \/ \A j \in 1..Len(draws[i]) : draws[i][j] = 1
        \/ \A j \in 1..Len(draws[i]) : draws[i][j] = terms[i].dice_sides

\* the draws one attribute is explored with: all of them until an
\* attribute of the sheet has been rolled with mixed faces, then only the
\* all-lowest and the all-highest
SheetDraws(terms, mixed, cfg) ==
    IF mixed THEN {d \in DrawsFor(terms, 1, cfg) : Uniform(terms, d)}
    ELSE DrawsFor(terms, 1, cfg)

\* generate_character, lines 499-503, and the first statements of
\* apply_to_character
Call_generate_character ==
    /\ character.pc = "idle"
    /\ \E template_name \in TemplateNames \cup {"fate"} :
           character' =
               IF template_name \notin TemplateNames
               THEN [NoCharacter EXCEPT !.pc = "done", !.template_name = template_name,
                                        !.error = "UnknownTemplate"]
               ELSE [NoCharacter EXCEPT
                         !.pc = "attributes", !.template_name = template_name,
                         !.system = Templates(template_name).system, !.idx = 1,
                         !.attributes = SheetAttributes(Templates(template_name).system)]
    /\ UNCHANGED <<config, frames, chunker, critical, op, pc, expression, locals, drawn,
                   evaluation, args, result1, result2, result>>

\* character.attributes[attr] = roll_result.total, or the ValueError
AttributeStored(c, name, r, mixed) ==
    IF ~r.ok THEN [c EXCEPT !.pc = "done", !.error = r.error]
    ELSE [c EXCEPT !.attributes = SetItem(@, name, r.total), !.idx = @ + 1,
                   !.mixed = @ \/ mixed]

\* one attribute of the template: its dice expression is rolled and the
\* total stored; a ValueError of roll_expression ends the call
AttributeRolled(entry, p) ==
    IF ~p.ok
    THEN character' = [character EXCEPT !.pc = "done", !.error = p.error]
    ELSE \E draws \in SheetDraws(p.terms, character.mixed, config) :
             character' = AttributeStored(character, entry.name,
                                          roll_expression(entry.dice, p, draws, config),
                                          ~Uniform(p.terms, draws))

Gen_Attribute ==
    /\ character.pc = "attributes"
    /\ character.idx <= Len(Templates(character.template_name).attributes)
    /\ AttributeRolled(Templates(character.template_name).attributes[character.idx],
                       parse_multiple_dice(
                           Templates(character.template_name).attributes[character.idx].dice,
                           config))
    /\ UNCHANGED <<config, frames, chunker, critical, op, pc, expression, locals, drawn,
                   evaluation, args, result1, result2, result>>

\* the skill loop of apply_to_character
Gen_Skills ==
    /\ character.pc = "attributes"
    /\ character.idx > Len(Templates(character.template_name).attributes)
    /\ character' = [character EXCEPT
                         !.pc = "mappings",
                         !.skills = AppliedSkills(Templates(character.template_name).skills, 1,
                                                  character.attributes, character.skills)]
    /\ UNCHANGED <<config, frames, chunker, critical, op, pc, expression, locals, drawn,
                   evaluation, args, result1, result2, result>>

\* _calculate_mappings, and generate_character returns the sheet
Gen_Mappings ==
    /\ character.pc = "mappings"
    /\ character' = [character EXCEPT
                         !.pc = "done",
                         !.attributes = CalculatedMappings(
                                            Templates(character.template_name).mapping, 1,
                                            character.attributes)]
    /\ UNCHANGED <<config, frames, chunker, critical, op, pc, expression, locals, drawn,
                   evaluation, args, result1, result2, result>>

\* the caller has the sheet or the ValueError
Gen_Return ==
    /\ character.pc = "done"
    /\ character' = NoCharacter
    /\ UNCHANGED <<config, frames, chunker, critical, op, pc, expression, locals, drawn,
                   evaluation, args, result1, result2, result>>

(***************************************************************************)
(* Documents: DocumentProcessor.chunk_text cuts a text into chunks.        *)
(* Positions are those of Python, counted from 0; text[i] of Python is     *)
(* text[i + 1] here.                                                       *)
(***************************************************************************)
\* the longest text and the largest chunk_size explored
MaxText == 5
MaxChunk == 3

\* the characters the loop breaks at, written by code point: the
\* ideographic full stop, the fullwidth exclamation mark, question mark,
\* comma and semicolon
FullStop == "U+3002"
Exclamation == "U+FF01"
Question == "U+FF1F"
Comma == "U+FF0C"
Semicolon == "U+FF1B"

\* the list of break strings of line 140, in its order
BreakChars ==
    << <<"\n", "\n">>, <<FullStop>>, <<Exclamation>>, <<Question>>, <<"\n">>,
       <<Comma>>, <<Semicolon>> >>

\* the texts explored: a letter, a newline, a full stop, a comma
TextAlphabet == {"a", "\n", FullStop, Comma}

ChunkTexts == UNION {[1..n -> TextAlphabet] : n \in 0..MaxText}

Min(a, b) == IF a <= b THEN a ELSE b
Max(a, b) == IF a >= b THEN a ELSE b

\* text[start:end] for 0 <= start
Slice(text, start, end) == SubSeq(text, start + 1, Min(end, Len(text)))

\* sub occurs in text at position i
OccursAt(text, sub, i) ==
    /\ i + Len(sub) <= Len(text)
    /\ \A j \in 1..Len(sub) : text[i + j] = sub[j]

\* text.rfind(sub, start, end) for 0 <= start <= end <= len(text): the
\* highest position of an occurrence that lies within [start, end), or -1
RFind(text, sub, start, end) ==
    IF \E i \in start..(end - Len(sub)) : OccursAt(text, sub, i)
    THEN CHOOSE i \in start..(end - Len(sub)) :
             /\ OccursAt(text, sub, i)
             /\ \A j \in (i + 1)..(end - Len(sub)) : ~OccursAt(text, sub, j)
    ELSE 0 - 1

\* the for loop of lines 140-144: the first break string of the list
\* found after start moves end behind its last occurrence
RECURSIVE BreakEnd(_, _, _, _)
BreakEnd(text, start, end, b) ==
    IF b > Len(BreakChars) THEN end
    ELSE IF RFind(text, BreakChars[b], start, end) > start
    THEN RFind(text, BreakChars[b], start, end) + Len(BreakChars[b])
    ELSE BreakEnd(text, start, end, b + 1)

\* lines 135-144: where the chunk that starts at start ends
ChunkEnd(text, start, chunk_size) ==
    IF start + chunk_size < Len(text)
    THEN BreakEnd(text, start, start + chunk_size, 1)
    ELSE start + chunk_size

\* lines 146-151 with end computed: the stripped chunk is appended unless
\* it is empty, and start moves on
ChunkAppended(c, end, chunk) ==
    [c EXCEPT !.chunks = IF Len(chunk) > 0 THEN Append(@, chunk) ELSE @,
              !.spans = IF Len(chunk) > 0 THEN Append(@, [start |-> c.start, end |-> end])
                        ELSE @,
              !.start = Max(c.start + c.chunk_size - c.overlap, end)]

\* chunk_text is called; a text no longer than chunk_size is returned
\* whole (lines 128-129)
Call_chunk_text ==
    /\ chunker.pc = "idle"
    /\ \E text \in ChunkTexts, chunk_size \in 1..MaxChunk, overlap \in 0..MaxChunk :
           chunker' =
               IF Len(text) <= chunk_size
               THEN [NoChunker EXCEPT !.pc = "done", !.text = text,
                                      !.chunk_size = chunk_size, !.overlap = overlap,
                                      !.returned = <<text>>]
               ELSE [NoChunker EXCEPT !.pc = "loop", !.text = text,
                                      !.chunk_size = chunk_size, !.overlap = overlap]
    /\ UNCHANGED <<config, frames, character, critical, op, pc, expression, locals, drawn,
                   evaluation, args, result1, result2, result>>

\* one pass of the while loop, lines 134-151
Chunk_Pass ==
    /\ chunker.pc = "loop"
    /\ chunker.start < Len(chunker.text)
    /\ chunker' = ChunkAppended(
                      chunker,
                      ChunkEnd(chunker.text, chunker.start, chunker.chunk_size),
                      Strip(Slice(chunker.text, chunker.start,
                                  ChunkEnd(chunker.text, chunker.start, chunker.chunk_size))))
    /\ UNCHANGED <<config, frames, character, critical, op, pc, expression, locals, drawn,
                   evaluation, args, result1, result2, result>>

\* the loop is left and the non-empty chunks are returned, line 153
Chunk_Return ==
    /\ chunker.pc = "loop"
    /\ chunker.start >= Len(chunker.text)
    /\ chunker' = [chunker EXCEPT !.pc = "done",
                                  !.returned = SelectSeq(chunker.chunks,
                                                         LAMBDA c : Len(c) > 0)]
    /\ UNCHANGED <<config, frames, character, critical, op, pc, expression, locals, drawn,
                   evaluation, args, result1, result2, result>>

\* the caller has the list
Chunk_Done ==
    /\ chunker.pc = "done"
    /\ chunker' = NoChunker
    /\ UNCHANGED <<config, frames, character, critical, op, pc, expression, locals, drawn,
                   evaluation, args, result1, result2, result>>

(***************************************************************************)
(* Specifications.                                                         *)
(***************************************************************************)
\* the expression engine: parser, roller, advantage / disadvantage
Next ==
    \/ Call_roll_expression
    \/ Call_roll_advantage
    \/ Call_roll_disadvantage
    \/ Call_parse_multiple_dice
    \/ Call_parse_expression
    \/ Parse
    \/ RollTerm
    \/ Return_roll_expression
    \/ FirstEvaluation
    \/ SecondEvaluation
    \/ Call_is_critical
    \/ Return

Spec == Init /\ [][Next]_vars

\* the percentile check
CocNext ==
    \/ Call_roll_coc_check
    \/ Return

CocSpec == Init /\ [][CocNext]_vars

\* the dice pool
WodNext ==
    \/ Call_roll_wod_pool
    \/ Return

WodSpec == Init /\ [][WodNext]_vars

\* concurrent calls, interleaved step by step
ConcNext ==
    \E w \in Calls :
        \/ Conc_Call(w)
        \/ Conc_Parse(w)
        \/ Conc_RollTerm(w)
        \/ Conc_Finish(w)
        \/ Conc_roll_coc_check(w)
        \/ Conc_roll_wod_pool(w)
        \/ Conc_Return(w)

ConcSpec == Init /\ [][ConcNext]_vars

\* character generation
SheetNext ==
    \/ Call_generate_character
    \/ Gen_Attribute
    \/ Gen_Skills
    \/ Gen_Mappings
    \/ Gen_Return

SheetSpec == Init /\ [][SheetNext]_vars

\* the chunking of a document text
ChunkNext ==
    \/ Call_chunk_text
    \/ Chunk_Pass
    \/ Chunk_Return
    \/ Chunk_Done

ChunkSpec == Init /\ [][ChunkNext]_vars

(***************************************************************************)
(* Properties.                                                             *)
(***************************************************************************)
Done(o) == op = o /\ pc = "done"

WithinLimits(n, s) == n <= config.MAX_DICE_COUNT /\ s <= config.MAX_DICE_SIDES

\* how many entries of a sequence equal v
Count(seq, v) == Cardinality({i \in 1..Len(seq) : seq[i] = v})

\* <<count, sides, modifier>> of the expressions '<count>d<sides><modifier:+>'
ModifiedCases ==
    ((1..MaxN) \X (1..MaxS) \X ((0 - MaxMod)..MaxMod)) \cup {<<3, 6, 2>>, <<2, 10, -1>>}

\* C1: within the configured limits, rolling '<count>d<sides><m with its
\* sign>' returns exactly count values, each in 1..sides, and a total equal
\* to their sum plus m.
C1_ModifiedRoll ==
    Done("roll_expression") =>
    \A c \in ModifiedCases :
        (expression = ModifiedText(c[1], c[2], c[3]) /\ WithinLimits(c[1], c[2]))
        => /\ result.ok
           /\ Len(result.rolls) = c[1]
           /\ \A i \in 1..Len(result.rolls) : result.rolls[i] \in 1..c[2]
           /\ result.total = SumSeq(result.rolls) + c[3]

\* '2d3-1' rolled 3 and 1: total 3
C1_Witness ==
    /\ Done("roll_expression")
    /\ expression = ModifiedText(2, 3, -1)
    /\ result.ok
    /\ result.rolls = <<3, 1>>
    /\ result.total = 3

\* <<count, sides, multiplier>> of the expressions '<count>d<sides>x<multiplier>'
MultiplierCases ==
    ((1..MaxN) \X (1..MaxS) \X (0..MaxMult)) \cup {<<3, 6, 5>>}

\* C2: rolling 'NdSxM' returns exactly N values, the i-th being M times the
\* i-th face drawn (each face in 1..S), and a total of M times the sum of
\* the drawn faces.
C2_MultiplierRoll ==
    Done("roll_expression") =>
    \A c \in MultiplierCases :
        (expression = MultiplierText(c[1], c[2], c[3]) /\ WithinLimits(c[1], c[2]))
        => /\ result.ok
           /\ Len(drawn) = 1
           /\ Len(drawn[1]) = c[1]
           /\ Len(result.rolls) = c[1]
           /\ \A i \in 1..Len(result.rolls) :
                  /\ drawn[1][i] \in 1..c[2]
                  /\ result.rolls[i] = c[3] * drawn[1][i]
           /\ result.total = c[3] * SumSeq(drawn[1])

\* '3d6x5' drew 2, 6 and 1: values 10, 30, 5 and total 45
C2_Witness ==
    /\ Done("roll_expression")
    /\ expression = MultiplierText(3, 6, 5)
    /\ drawn = <<(<<2, 6, 1>>)>>
    /\ result.rolls = <<10, 30, 5>>
    /\ result.total = 45

\* <<count, sides, keep>> of the expressions '<count>d<sides>k<keep>' with
\* 0 < keep < count
KeepCases ==
    {c \in (2..MaxN) \X (1..MaxS) \X (1..MaxN) : c[3] < c[1]} \cup {<<4, 6, 3>>}

\* C3: rolling 'NdSkK' with 0 < K < N returns exactly K values; they are
\* among the N drawn faces, and each is at least as large as every face of
\* the draw that was discarded.
C3_KeepHighest ==
    Done("roll_expression") =>
    \A c \in KeepCases :
        (expression = KeepText(c[1], c[2], c[3]) /\ WithinLimits(c[1], c[2]))
        => /\ result.ok
           /\ Len(drawn) = 1
           /\ Len(drawn[1]) = c[1]
           /\ Len(result.rolls) = c[3]
           /\ \A v \in 1..c[2] : Count(result.rolls, v) <= Count(drawn[1], v)
           /\ \A i \in 1..Len(result.rolls) : result.rolls[i] \in 1..c[2]
           /\ \A i \in 1..Len(result.rolls), u \in 1..c[2] :
                  Count(drawn[1], u) > Count(result.rolls, u) => result.rolls[i] >= u

\* '4d6k3' drew 2, 5, 1, 5: the 1 is discarded
C3_Witness ==
    /\ Done("roll_expression")
    /\ expression = KeepText(4, 6, 3)
    /\ drawn = <<(<<2, 5, 1, 5>>)>>
    /\ result.rolls = <<5, 5, 2>>

\* C4: rolling '10-2d6' always gives the total 10 - 7 = 3.
C4_TenMinus2d6IsThree ==
    (Done("roll_expression") /\ expression = TenMinus2d6)
    => (result.ok /\ result.total = 3)

\* C5: roll_expression accepts '(2d6+6)x5' and returns two values, each 5
\* times a face in 1..6, the modifier 30 and the total 5 * (faces + 6).
C5_GroupWithModifierAccepted ==
    (Done("roll_expression") /\ expression = GroupTimes5)
    => /\ result.ok
       /\ Len(result.rolls) = 2
       /\ \A i \in 1..Len(result.rolls) : result.rolls[i] \in {5 * f : f \in 1..6}
       /\ result.modifier = 30
       /\ result.total = SumSeq(result.rolls) + 30

\* the level the priority order of the percentile check gives
PriorityLevel(roll, skill) ==
    IF roll = 1 THEN "critical_success"
    ELSE IF roll = 100 \/ (roll >= 96 /\ skill < 50) THEN "critical_failure"
    ELSE IF roll <= skill \div 5 THEN "extreme_success"
    ELSE IF roll <= skill \div 2 THEN "hard_success"
    ELSE IF roll <= skill THEN "success"
    ELSE "failure"

\* C6: roll_coc_check draws one d100 and classifies it in the priority
\* order critical success, critical failure, extreme, hard, regular
\* success, failure; success is true exactly when the level is neither
\* failure nor critical failure.
C6_CocPriorityOrder ==
    Done("roll_coc_check")
    => /\ result.roll \in 1..100
       /\ result.skill_value = args.skill_value
       /\ result.level = PriorityLevel(result.roll, args.skill_value)
       /\ result.success = (result.level \notin {"failure", "critical_failure"})

\* skill 20, roll 96: critical failure through the skill < 50 branch
C6_Witness ==
    /\ Done("roll_coc_check")
    /\ args.skill_value = 20
    /\ result.roll = 96
    /\ result.level = "critical_failure"
    /\ ~result.success

\* C7: for pool_size >= 1 roll_wod_pool draws pool_size d10 and returns
\* successes = (dice >= difficulty) + (with specialization, dice showing 10
\* that meet the difficulty), and botch = (no success and some die shows 1).
C7_WodPool ==
    (Done("roll_wod_pool") /\ args.pool_size >= 1)
    => /\ Len(result.rolls) = args.pool_size
       /\ drawn = <<result.rolls>>
       /\ \A i \in 1..Len(result.rolls) : result.rolls[i] \in 1..10
       /\ result.successes =
              Cardinality({i \in 1..Len(result.rolls) : result.rolls[i] >= args.difficulty})
              + (IF args.specialization
                 THEN Cardinality({i \in 1..Len(result.rolls) :
                                       result.rolls[i] = 10 /\ result.rolls[i] >= args.difficulty})
                 ELSE 0)
       /\ result.botch = (result.successes = 0
                          /\ \E i \in 1..Len(result.rolls) : result.rolls[i] = 1)
       /\ (result.rolls = <<1, 1, 4>> /\ args.difficulty = 6
              => result.successes = 0 /\ result.botch)
       /\ (result.rolls = <<6, 1, 2>> /\ args.difficulty = 6
              => result.successes = 1 /\ ~result.botch)

\* pool 3 at difficulty 6 rolled 1, 1, 4: no success, botch
C7_Witness ==
    /\ Done("roll_wod_pool")
    /\ args.pool_size = 3
    /\ args.difficulty = 6
    /\ result.rolls = <<1, 1, 4>>
    /\ result.successes = 0
    /\ result.botch

\* C8: roll_advantage returns the evaluation with the larger total and
\* roll_disadvantage the one with the smaller total, the first on a tie;
\* what is returned is one of the two evaluations of the expression,
\* unchanged.
C8_AdvantageDisadvantage ==
    /\ (pc = "done" /\ op \in MetaOps /\ result.ok)
       => /\ result1.ok /\ result1.expression = expression
          /\ result2.ok /\ result2.expression = expression
          /\ result \in {result1, result2}
    /\ (Done("roll_advantage") /\ result.ok)
       => /\ result.total >= result1.total /\ result.total >= result2.total
          /\ (result1.total = result2.total => result = result1)
    /\ (Done("roll_disadvantage") /\ result.ok)
       => /\ result.total <= result1.total /\ result.total <= result2.total
          /\ (result1.total = result2.total => result = result1)

\* 'd20' evaluated to 12 and then 18: advantage returns the 18
C8_Witness ==
    /\ Done("roll_advantage")
    /\ expression = D20Text
    /\ result1.total = 12
    /\ result2.total = 18
    /\ result = result2

\* <<count, sides, keep>> of the keep groups whose keep exceeds the count
KeepExceeding ==
    {c \in (0..MaxN) \X (1..MaxS) \X (1..(MaxN + 1)) : c[3] > c[1]} \cup {<<2, 6, 5>>}

\* C9: a keep group whose keep exceeds its count fails to parse with
\* InvalidKeepCount and gives no term; roll_expression returns no outcome
\* for an expression that contains such a group.
C9_KeepExceedsCount ==
    pc = "done" =>
    \A c \in KeepExceeding :
        /\ (Done("parse_expression") /\ expression = KeepText(c[1], c[2], c[3]))
           => (~result.ok /\ result.error = "InvalidKeepCount")
        /\ (Done("parse_multiple_dice") /\ expression \in InContext(KeepText(c[1], c[2], c[3])))
           => (~result.ok /\ result.error = "InvalidKeepCount" /\ result.terms = <<>>)
        /\ (Done("roll_expression") /\ expression \in InContext(KeepText(c[1], c[2], c[3])))
           => (~result.ok /\ result.error = "InvalidKeepCount" /\ drawn = <<>>)

\* '2d6k5' given to roll_expression: InvalidKeepCount, no outcome
C9_Witness ==
    /\ Done("roll_expression")
    /\ expression = KeepText(2, 6, 5)
    /\ ~result.ok
    /\ result.error = "InvalidKeepCount"

\* an expression with no token: only blanks and '+' / '-' characters
Tokenless(e) == \A i \in 1..Len(e) : e[i] \in {" ", "+", "-"}

\* C10: an expression that is empty or has no token makes
\* parse_multiple_dice and roll_expression fail with EmptyExpression.
C10_EmptyExpressionFails ==
    (pc = "done" /\ op \in {"parse_multiple_dice", "roll_expression"} /\ Tokenless(expression))
    => (~result.ok /\ result.error = "EmptyExpression")

\* <<count, sides>> of the dice groups '<count>d<sides>'
LimitCases ==
    ((1..MaxN) \X (1..MaxS))
        \cup {<<DEFAULT_MAX_DICE_COUNT + 1, 6>>, <<1, DEFAULT_MAX_DICE_SIDES + 1>>}

\* C11: an expression in which a dice group is written with a count above
\* MAX_DICE_COUNT or sides above MAX_DICE_SIDES gives no outcome:
\* roll_expression fails with DiceCountExceeded or DiceSidesExceeded, under
\* a plus sign and under a minus sign alike.
C11_LimitsEnforced ==
    Done("roll_expression") =>
    \A c \in LimitCases :
        (expression \in InContext(DiceText(c[1], c[2])) /\ ~WithinLimits(c[1], c[2]))
        => (~result.ok /\ result.error \in {"DiceCountExceeded", "DiceSidesExceeded"})

\* C12: a token that is a bare positive integer N <= MAX_DICE_SIDES (no
\* 'd', no sign) is parsed as one die with N sides: count 1, sides N,
\* modifier 0, multiplier 1, keep 0.
C12_BareIntegerIsDie ==
    (/\ Done("parse_expression")
     /\ MatchDigits(expression)
     /\ DecVal(expression) \in 1..config.MAX_DICE_SIDES)
    => (result.ok /\ result.term = Term(1, DecVal(expression), 0, 1, 0))

\* C13: roll_wod_pool with pool_size = 0 draws no die and returns zero
\* successes, an empty roll list and botch = true, for every difficulty and
\* specialization value.
C13_EmptyPoolIsBotch ==
    (Done("roll_wod_pool") /\ args.pool_size = 0)
    => /\ drawn = <<>>
       /\ result.successes = 0
       /\ result.rolls = <<>>
       /\ result.botch

\* an empty pool with specialization at difficulty 6: botch
C13_Witness ==
    /\ Done("roll_wod_pool")
    /\ args.pool_size = 0
    /\ args.difficulty = 6
    /\ args.specialization
    /\ result.rolls = <<>>
    /\ result.botch

\* C14: every result of roll_wod_pool carries the five fields successes,
\* rolls, botch, difficulty and pool_size, with difficulty and pool_size
\* equal to the arguments and as many rolls as pool_size.
C14_WodResultFields ==
    Done("roll_wod_pool")
    => /\ result.keys = {"successes", "rolls", "botch", "difficulty", "pool_size"}
       /\ result.difficulty = args.difficulty
       /\ result.pool_size = args.pool_size
       /\ Len(result.rolls) = args.pool_size

ParseErrors ==
    {"EmptyExpression", "UnparseableExpression", "InvalidKeepCount", "InvalidLiteral"}

\* a malformed token after a well-formed dice term: '2d6+abc', and
\* '1d2+<count>d<sides>k<keep>' with keep > count
MalformedAfterDice ==
    {DiceThenLetters}
        \cup {<<"1", "d", "2", "+">> \o KeepText(c[1], c[2], c[3]) : c \in KeepExceeding}

\* C16: when roll_expression fails with a parse-time error no die has been
\* drawn in that call, also when the malformed token comes after
\* well-formed dice terms.
C16_ParseErrorsBeforeDraws ==
    Done("roll_expression") =>
    /\ (~result.ok /\ result.error \in ParseErrors)
       => (drawn = <<>> /\ all_rolls = <<>>)
    /\ expression \in MalformedAfterDice
       => (~result.ok /\ result.error \in ParseErrors /\ drawn = <<>>)

\* '2d6+abc': UnparseableExpression, nothing drawn for the '2d6' in front
C16_Witness ==
    /\ Done("roll_expression")
    /\ expression = DiceThenLetters
    /\ ~result.ok
    /\ result.error = "UnparseableExpression"
    /\ drawn = <<>>

\* the sum over the terms of modifier * multiplier
RECURSIVE ScaledModifiers(_)
ScaledModifiers(terms) ==
    IF Len(terms) = 0 THEN 0
    ELSE terms[1].modifier * terms[1].multiplier + ScaledModifiers(Tail(terms))

\* <<a, b>> of the expressions '<a with its sign><b with its sign>'
PureModifierCases == ((0 - MaxMod)..MaxMod) \X ((0 - MaxMod)..MaxMod)

\* the outcome of an expression without dice that is worth v
PureModifierOutcome(v) ==
    /\ result.ok
    /\ result.rolls = <<0>>
    /\ result.total = v
    /\ result.dice_count = 0
    /\ result.dice_sides = 0
    /\ drawn = <<>>

C18_Criticals ==
    (pc = "done" /\ critical.asked) =>
    /\ result.ok
    /\ critical.success = (/\ config.ENABLE_CRITICAL_EFFECTS
                           /\ \E i \in 1..Len(result.rolls) :
                                  result.rolls[i] = result.dice_sides)
    /\ critical.failure = (/\ config.ENABLE_CRITICAL_EFFECTS
                           /\ \E i \in 1..Len(result.rolls) : result.rolls[i] = 1)
    /\ (~config.ENABLE_CRITICAL_EFFECTS => (~critical.success /\ ~critical.failure))

\* 'd20' rolled 20 with critical effects enabled: a critical success and
\* no critical failure
C18_Witness ==
    /\ Done("roll_expression")
    /\ expression = D20Text
    /\ config.ENABLE_CRITICAL_EFFECTS
    /\ result.rolls = <<20>>
    /\ critical.asked
    /\ critical.success
    /\ ~critical.failure

\* count * ((sides + 1) // 2), negated
Flat(n, s) == 0 - n * ((s + 1) \div 2)

\* C19: a dice group under a minus sign is never rolled.
\* parse_multiple_dice gives for it a term with count 0, keep 0 and the
\* modifier -(its modifier) - count * ((sides + 1) // 2), and an expression
\* whose dice groups are all subtracted has the same total in every
\* evaluation, with no draw.
C19_SubtractedGroupIsFlat ==
    pc = "done" =>
    \A n \in 1..MaxN, s \in 1..MaxS :
        /\ (Done("parse_multiple_dice") /\ expression = <<"-">> \o DiceText(n, s))
           => (result.ok /\ result.terms = <<Term(0, s, Flat(n, s), 1, 0)>>)
        /\ (Done("parse_multiple_dice") /\ expression = <<"2", "-">> \o DiceText(n, s))
           => (/\ result.ok
               /\ result.terms = <<Term(0, 0, 2, 1, 0), Term(0, s, Flat(n, s), 1, 0)>>)
        /\ \A k \in 0..n :
               (Done("parse_multiple_dice") /\ expression = <<"-">> \o KeepText(n, s, k))
               => (result.ok /\ result.terms = <<Term(0, s, Flat(n, s), 1, 0)>>)
        /\ (Done("roll_expression") /\ expression = <<"-">> \o DiceText(n, s))
           => PureModifierOutcome(Flat(n, s))
        /\ (Done("roll_expression") /\ expression = <<"2", "-">> \o DiceText(n, s))
           => PureModifierOutcome(2 + Flat(n, s))
        /\ \A k \in 0..n :
               (Done("roll_expression") /\ expression = <<"-">> \o KeepText(n, s, k))
               => PureModifierOutcome(Flat(n, s))

\* '2-3d3' given to roll_expression: nothing drawn, total 2 - 3 * 2 = -4
C19_Witness ==
    /\ Done("roll_expression")
    /\ expression = <<"2", "-">> \o DiceText(3, 3)
    /\ result.ok
    /\ drawn = <<>>
    /\ result.rolls = <<0>>
    /\ result.total = -4

\* the values a term retains of the faces drawn for it, scaled by its
\* multiplier
Retained(t, faces) ==
    LET kept == IF t.keep_count > 0 /\ t.keep_count < t.dice_count
                THEN SubSeq(SortDesc(faces), 1, t.keep_count)
                ELSE faces
    IN  [i \in 1..Len(kept) |-> kept[i] * t.multiplier]

\* the retained values of the terms, in term order; draws holds the faces
\* of the terms that have dice, in term order
RECURSIVE ExpectedRolls(_, _)
ExpectedRolls(terms, draws) ==
    IF Len(terms) = 0 THEN <<>>
    ELSE IF terms[1].dice_count > 0
    THEN Retained(terms[1], draws[1]) \o ExpectedRolls(Tail(terms), Tail(draws))
    ELSE ExpectedRolls(Tail(terms), draws)

\* how many terms have dice
RolledTerms(terms) == Cardinality({i \in 1..Len(terms) : terms[i].dice_count > 0})

\* C20: for an outcome of roll_expression on a multi-term expression with
\* at least one rolled die, rolls is the concatenation in term order of
\* each term's retained multiplier-scaled values, modifier is the sum over
\* the terms of sign-applied modifier * multiplier, and total is
\* sum(rolls) + modifier.
C20_MultiTerm ==
    (Done("roll_expression") /\ result.ok /\ Len(dice_parts) >= 2 /\ Len(drawn) >= 1) =>
    /\ Len(drawn) = RolledTerms(dice_parts)
    /\ result.rolls = ExpectedRolls(dice_parts, drawn)
    /\ result.modifier = ScaledModifiers(dice_parts)
    /\ result.total = SumSeq(result.rolls) + result.modifier
    /\ expression = ThreeTerms
       => /\ Len(result.rolls) = 5
          /\ \A i \in 1..3 : result.rolls[i] \in 1..6
          /\ \A i \in 4..5 : result.rolls[i] \in 1..4
          /\ result.modifier = 5

\* '3d6+2d4+5' drew 1, 2, 3 and then 4, 1: total 16
C20_Witness ==
    /\ Done("roll_expression")
    /\ expression = ThreeTerms
    /\ drawn = <<(<<1, 2, 3>>), (<<4, 1>>)>>
    /\ result.rolls = <<1, 2, 3, 4, 1>>
    /\ result.modifier = 5
    /\ result.total = 16

\* the positions of the terms that have dice
DiceTermsAt(terms) == {i \in 1..Len(terms) : terms[i].dice_count > 0}

\* the first of a non-empty set of positions
FirstOf(positions) == CHOOSE i \in positions : \A j \in positions : i <= j

\* C21: the outcome's primary die count and sides are those of the first
\* term, in term order, whose count is positive after the sign handling
\* (the written count, not the keep count); later dice terms do not
\* overwrite them, and both are 0 when no term has dice.
C21_PrimaryDie ==
    (Done("roll_expression") /\ result.ok) =>
    /\ DiceTermsAt(dice_parts) = {}
       => (result.dice_count = 0 /\ result.dice_sides = 0)
    /\ DiceTermsAt(dice_parts) # {}
       => /\ result.dice_count = dice_parts[FirstOf(DiceTermsAt(dice_parts))].dice_count
          /\ result.dice_sides = dice_parts[FirstOf(DiceTermsAt(dice_parts))].dice_sides
    /\ \A n \in 1..MaxN, sd \in 1..MaxS :
           /\ expression = <<"1", "d", "2", "+">> \o DiceText(n, sd)
              => (result.dice_count = 1 /\ result.dice_sides = 2)
           /\ expression = <<"2", "-">> \o DiceText(n, sd)
              => (result.dice_count = 0 /\ result.dice_sides = 0)
           /\ \A k \in 0..n :
                  expression = KeepText(n, sd, k)
                  => (result.dice_count = n /\ result.dice_sides = sd)

\* '1d2+3d3': the primary die is the 1d2 although 3d3 was rolled after it
C21_Witness ==
    /\ Done("roll_expression")
    /\ expression = <<"1", "d", "2", "+">> \o DiceText(3, 3)
    /\ result.ok
    /\ Len(drawn) = 2
    /\ result.dice_count = 1
    /\ result.dice_sides = 2

\* C22: with critical effects enabled, an outcome of a single
\* multiplier-form expression 'NdSxM' with M # 1 answers false to both
\* is_critical_success() and is_critical_failure().
C22_MultipliedNeverCritical ==
    (Done("roll_expression") /\ critical.asked /\ config.ENABLE_CRITICAL_EFFECTS) =>
    \A c \in MultiplierCases :
        (expression = MultiplierText(c[1], c[2], c[3]) /\ c[3] # 1)
        => (~critical.success /\ ~critical.failure)

Operators == {"+", "-"}

\* where the tokens of a text start: a character that is no operator, at
\* the start of the text or right after an operator
TokenStarts(c) ==
    {i \in 1..Len(c) : c[i] \notin Operators /\ (i = 1 \/ c[i - 1] \in Operators)}

\* the k-th token start, from the left
NthStart(c, k) ==
    CHOOSE i \in TokenStarts(c) : Cardinality({j \in TokenStarts(c) : j < i}) = k - 1

\* the token that starts at i: up to the next operator or the end
TokenAt(c, i) ==
    SubSeq(c, i, CHOOSE j \in i..Len(c) :
                     /\ \A m \in i..j : c[m] \notin Operators
                     /\ (j = Len(c) \/ c[j + 1] \in Operators))

\* the sign of the token that starts at i: that of the character before it
SignAt(c, i) == IF i > 1 /\ c[i - 1] = "-" THEN -1 ELSE 1

\* the terms of a cleaned text whose tokens all parse, left to right
TermsOf(c, cfg) ==
    [k \in 1..Cardinality(TokenStarts(c)) |->
        ApplySign(parse_expression(TokenAt(c, NthStart(c, k)), cfg).term,
                  SignAt(c, NthStart(c, k)))]

\* the token starts whose token does not parse
BadStarts(c, cfg) == {i \in TokenStarts(c) : ~parse_expression(TokenAt(c, i), cfg).ok}

\* what parse_multiple_dice gives for a cleaned text, token by token
ByTokens(c, cfg) ==
    IF BadStarts(c, cfg) = {}
    THEN [ok |-> TRUE, terms |-> TermsOf(c, cfg), error |-> "none"]
    ELSE [ok |-> FALSE, terms |-> <<>>,
          error |-> parse_expression(TokenAt(c, FirstOf(BadStarts(c, cfg))), cfg).error]

\* C23: parse_multiple_dice cuts the space-stripped, lower-cased
\* expression at every '+' and '-', with no regard to parentheses, and
\* gives the terms in left-to-right token order; a token has the sign of
\* the operator character immediately before it, the first token without
\* an operator before it the sign +1.
C23_TextualSplit ==
    Done("parse_multiple_dice") =>
    /\ result = ByTokens(Lower(RemoveSpaces(expression)), config)
    /\ expression = GroupTimes5
       => /\ TokenAt(expression, 1) = <<"(", "2", "d", "6">>
          /\ TokenAt(expression, 6) = <<"6", ")", "x", "5">>
          /\ ~result.ok
    /\ expression = <<"-", "-", "2">> => result.terms = <<Term(0, 0, -2, 1, 0)>>
    /\ expression = <<"-", "+", "2">> => result.terms = <<Term(0, 0, 2, 1, 0)>>

\* '2-1' parsed: the terms +2 and -1, in this order
C23_Witness ==
    /\ Done("parse_multiple_dice")
    /\ expression = <<"2", "-", "1">>
    /\ result.ok
    /\ result.terms = <<Term(0, 0, 2, 1, 0), Term(0, 0, -1, 1, 0)>>

\* some '+' or '-' of the text is followed by no token: it is the last
\* character, or the next character is an operator too
DanglingOperator(c) ==
    \E i \in 1..Len(c) : c[i] \in Operators /\ (i = Len(c) \/ c[i + 1] \in Operators)

\* C24: roll_expression does not accept an expression in which a '+' or
\* '-' is not followed by a token ('3d6+', '3d6+-2'): it fails with a
\* parse error instead of returning an outcome.
C24_DanglingOperatorFails ==
    (Done("roll_expression") /\ DanglingOperator(RemoveSpaces(expression)))
    => (~result.ok /\ result.error \in ParseErrors)

\* the outcome r is what the locals f give: the parse of f's own
\* expression and the faces drawn in f's own evaluation
FromOwnDraws(f, r) ==
    /\ r.ok
    /\ r.expression = f.expression
    /\ f.dice_parts = parse_multiple_dice(f.expression, config).terms
    /\ Len(f.drawn) = RolledTerms(f.dice_parts)
    /\ r.rolls = IF RolledTerms(f.dice_parts) = 0 THEN <<0>>
                 ELSE ExpectedRolls(f.dice_parts, f.drawn)
    /\ r.modifier = ScaledModifiers(f.dice_parts)
    /\ r.total = SumSeq(r.rolls) + r.modifier

\* the result of a finished call comes from the call's own locals
OwnResult(f) ==
    f.pc = "done" =>
    /\ f.op = "roll_expression"
       => IF parse_multiple_dice(f.expression, config).ok /\ f.result.ok
          THEN FromOwnDraws(f, f.result)
          ELSE ~f.result.ok /\ f.all_rolls = <<>>
    /\ f.op = "roll_advantage"
       => /\ FromOwnDraws(f, f.result2)
          /\ f.result1.ok
          /\ f.result1.expression = f.expression
          /\ f.result1.modifier = f.result2.modifier
          /\ Len(f.result1.rolls) = Len(f.result2.rolls)
          /\ f.result1.total = SumSeq(f.result1.rolls) + f.result1.modifier
          /\ f.result = AdvantagePick(f.result1, f.result2)
    /\ f.op = "roll_coc_check"
       => /\ Len(f.drawn) = 1
          /\ f.result = CocResult(f.drawn[1][1], f.args.skill_value)
    /\ f.op = "roll_wod_pool"
       => /\ Len(f.drawn) = 1
          /\ f.result.rolls = f.drawn[1]
          /\ f.result = WodResult(f.args.pool_size, f.args.difficulty,
                                  f.args.specialization, f.drawn[1])

\* C25: concurrent calls are independent.  In every interleaving of
\* roll_expression, roll_advantage, roll_coc_check and roll_wod_pool calls
\* each result is built from that call's own parse and its own draws (with
\* total = sum(rolls) + modifier), and no step writes the shared
\* configuration record.
C25_IndependentCalls ==
    /\ [](\A w \in Calls : OwnResult(frames[w]))
    /\ [][config' = config]_vars

\* call 1 has returned from roll_expression('d2+1') with the face 2 while
\* call 2 is in the second evaluation of roll_advantage('d2'), having
\* drawn a 1
C25_Witness ==
    /\ frames[1].op = "roll_expression"
    /\ frames[1].pc = "done"
    /\ frames[1].result.rolls = <<2>>
    /\ frames[1].result.total = 3
    /\ frames[2].op = "roll_advantage"
    /\ frames[2].evaluation = 2
    /\ frames[2].pc = "roll"
    /\ frames[2].drawn = <<(<<1>>)>>

\* C26: an outcome in which no term produced dice (a pure-modifier
\* expression such as '5') is never reported as a critical success or a
\* critical failure: is_critical_success() and is_critical_failure() are
\* both false for it, with critical effects enabled or disabled.
C26_PureModifierNeverCritical ==
    (Done("roll_expression") /\ critical.asked
       /\ \A i \in 1..Len(dice_parts) : dice_parts[i].dice_count <= 0)
    => (~critical.success /\ ~critical.failure)

\* C27: the percentile check is monotone.  For a fixed d100 roll, success
\* at skill value s implies success at every skill value s' >= s; for a
\* fixed skill value, success of roll r implies success of every roll r'
\* with 1 <= r' <= r.
C27_CocMonotone ==
    (Done("roll_coc_check") /\ result.success) =>
    /\ \A s \in SkillValues :
           s >= args.skill_value => CocResult(result.roll, s).success
    /\ \A r \in 1..result.roll : CocResult(r, args.skill_value).success

\* skill 99, roll 99: a success whose lower rolls include 96..98 and whose
\* higher skill values include 100 and 1000
C27_Witness ==
    /\ Done("roll_coc_check")
    /\ args.skill_value = 99
    /\ result.roll = 99
    /\ result.success
    /\ result.level = "success"

\* the nine rolled attributes of the COC7 sheet
Coc7Rolled == {"STR", "CON", "SIZ", "DEX", "APP", "INT", "POW", "EDU", "LUC"}

\* C28: generate_character('coc7') always completes without error: every
\* dice expression of the COC7 template ('3d6x5' and '(2d6+6)x5') is
\* accepted by roll_expression, and the returned sheet has each of STR,
\* CON, SIZ, DEX, APP, INT, POW, EDU, LUC set to the total of its
\* expression, a multiple of 5 in 15..90 (with the default limits).
C28_Coc7Completes ==
    (character.pc = "done" /\ character.template_name = "coc7" /\ config = DefaultConfig)
    => /\ character.error = "none"
       /\ \A a \in Coc7Rolled : character.attributes[a] \in {5 * k : k \in 3..18}

\* C29: for a character generated from the DnD5e template, every skill
\* whose formula is '({ATTR}-10)/2' has the value floor((ATTR - 10) / 2),
\* which is what get_modifier returns for that attribute, for every
\* attribute score in 3..18.
C29_SkillIsModifier ==
    (character.pc = "done" /\ character.template_name = "dnd5e" /\ character.error = "none")
    => \A i \in 1..Len(Dnd5eTemplate.skills) :
           /\ character.attributes[Dnd5eTemplate.skills[i].attr] \in 3..18
           /\ character.skills[Dnd5eTemplate.skills[i].name].evaluated
           /\ character.skills[Dnd5eTemplate.skills[i].name].value
                  = (character.attributes[Dnd5eTemplate.skills[i].attr] - 10) \div 2
           /\ character.skills[Dnd5eTemplate.skills[i].name].value
                  = get_modifier(character.system, character.attributes,
                                 Dnd5eTemplate.skills[i].attr)

\* the chunk_text call has returned for arguments with a text longer than
\* chunk_size and 0 <= overlap < chunk_size
ChunkedLong ==
    /\ chunker.pc = "done"
    /\ Len(chunker.text) > chunker.chunk_size
    /\ chunker.overlap < chunker.chunk_size

\* the character at position k lies inside a returned chunk
Covered(k) ==
    \E i \in 1..Len(chunker.spans) :
        chunker.spans[i].start <= k /\ k < chunker.spans[i].end

\* C30: chunk_text loses no content.  For every text longer than
\* chunk_size (chunk_size >= 1, 0 <= overlap < chunk_size) each chunk
\* after the first starts no later than the position where the previous
\* chunk ended, and every non-whitespace character of the text lies inside
\* at least one returned chunk.  (That the loop terminates is
\* ChunkTerminates.)
C30_NoContentLost ==
    ChunkedLong =>
    /\ Len(chunker.returned) = Len(chunker.spans)
    /\ \A i \in 2..Len(chunker.spans) :
           chunker.spans[i].start <= chunker.spans[i - 1].end
    /\ \A k \in 0..(Len(chunker.text) - 1) :
           chunker.text[k + 1] \notin Whitespace => Covered(k)

\* the loop of chunk_text terminates: a pass is made only while start is
\* below the length of the text, and every pass makes start larger
ChunkTerminates ==
    [][chunker.pc = "loop" /\ chunker'.pc = "loop"
           => /\ chunker.start < Len(chunker.text)
              /\ chunker'.start > chunker.start]_vars

====
